---- MODULE Spec2Model ----
(***************************************************************************)
(* A model of the content-package workflow engine (src/src/               *)
(* workflow_engine.py), of the package model (src/src/models.py), of the  *)
(* channel registry lookups it uses (src/src/channel_manager.py) and of   *)
(* the title orchestrator of src/src/ai_service.py.                       *)
(*                                                                         *)
(* The engine runs on one asyncio event loop: the code between two awaits  *)
(* of a collaborator (text generation, image generation, persistence) is   *)
(* one atomic step.  A task is one call of run_full_workflow or of         *)
(* run_batch_workflow; its pc names the collaborator call it is suspended  *)
(* at.                                                                     *)
(*                                                                         *)
(* The uuid suffixes of package ids and of synthesized channel ids are     *)
(* taken to be fresh (nextId); time is counted in whole seconds; a string  *)
(* field that is None and one that is empty are not told apart, as the     *)
(* code tests both with `not`.                                             *)
(***************************************************************************)
EXTENDS Integers, Sequences, FiniteSets, TLC

(***************************************************************************)
(* Bounds of the model.                                                    *)
(***************************************************************************)
MaxPkgs == 2
MaxTicks == 2
MaxBatch == 2
MaxTasks == 1

(***************************************************************************)
(* Program constants.                                                      *)
(***************************************************************************)
SecondsPerHour == 3600
auto_generate_content == TRUE
auto_generate_images == TRUE

(***************************************************************************)
(* ContentStatus (models.py).                                              *)
(***************************************************************************)
PENDING == "pending"
PROCESSING == "processing"
GENERATING_CONTENT == "generating_content"
GENERATED == "generated"
UPLOADED == "uploaded"
PUBLISHED == "published"
FAILED == "failed"
ContentStatus ==
  {PENDING, PROCESSING, GENERATING_CONTENT, GENERATED, UPLOADED, PUBLISHED, FAILED}

(***************************************************************************)
(* Values.  None is Python's None for the optional string fields; a        *)
(* channel id is a record so that the synthesized "ad-hoc-<slug>-<hex>"    *)
(* ids keep their prefix.                                                  *)
(***************************************************************************)
None == "None"
NoId == [prefix |-> "", slug |-> "None", suffix |-> 0]
GivenId(s) == [prefix |-> "", slug |-> s, suffix |-> 0]
AdhocId(slug, hex) == [prefix |-> "ad-hoc-", slug |-> slug, suffix |-> hex]
RegId == GivenId("default_channel")
UnkId == GivenId("missing_channel")

NoContent == [is_none |-> TRUE]
NoImages == [is_none |-> TRUE]

ChannelNames == {None, "Test Channel"}
ChannelDescriptions == {None, "Test Description"}
InputData ==
  [channel_id : {NoId, RegId, UnkId},
   channel_name : ChannelNames,
   channel_description : ChannelDescriptions]

slugify(name) ==
  IF name = "Test Channel" THEN "test-channel"
  ELSE IF name = "Demo Channel" THEN "demo-channel"
  ELSE "unknown-channel"

(***************************************************************************)
(* Error messages (str(e)) of the exceptions the engine handles.           *)
(***************************************************************************)
ErrChannelMissing == "Kenh khong ton tai"
ErrNoChannelConfig == "Khong tim thay cau hinh cho kenh"
ErrValidation == "ValidationError: channel_id"
ErrContent == "content generation failed"
ErrNoPrompts == "Khong co prompts de tao anh"
ErrSave == "save failed"
ErrImages == "image generation failed"

(***************************************************************************)
(* A log entry: the message kind and the value interpolated into it (the   *)
(* error text str(e), a status value, a channel name, a title).  The       *)
(* timestamp prefix is the package's updated_at.                           *)
(***************************************************************************)
Log(msg, arg) == [msg |-> msg, arg |-> arg]

VARIABLES
  channels,         \* ChannelManager.channels: channel id -> ChannelConfig
  packages,         \* the ContentPackage objects, by package id
  active_packages,  \* WorkflowEngine.active_packages: the registered ids
  nextId,           \* source of the fresh uuid suffixes of ids
  now,              \* datetime.now(), in seconds
  ticks,            \* how often the clock has advanced
  tasks,            \* the calls of run_full_workflow / run_batch_workflow
  collab_calls,     \* the collaborator calls issued, and failed: [pkg, kind]
  created,          \* the outcome of the last create_content_package call
  swept,            \* the last cleanup_completed_packages call
  recent_title_starts,  \* AIContentGenerator.recent_title_starts
  title_tasks,      \* the calls of _generate_title_and_thumbnail
  title_calls,      \* how many such calls have started
  recent_tag_patterns,  \* AIContentGenerator.recent_tag_patterns
  recent_full_tags, \* AIContentGenerator.recent_full_tags (absent: empty)
  tags_tasks,       \* the calls of _generate_tags
  tags_calls,       \* how many such calls have started
  gen_tasks,        \* the calls of generate_optimized_content
  gen_calls,        \* how many such calls have started
  title_log,        \* the titles passed to _track_title_diversity by direct calls
  tags_log,         \* the tag lists passed to _track_tag_diversity by direct calls
  clean_input,      \* the tag list passed to _clean_and_validate_tags
  clean_once,       \* its result
  clean_twice,      \* the result of cleaning that result
  save_tasks,       \* the calls of DatabaseManager.save_content_package
  save_calls,       \* how many such calls have started
  sheet,            \* data rows of the channel's worksheet, in row order
  table,            \* records of the channel's Airtable table, in creation order
  upd_task,         \* the update_content_package call in flight
  upd_calls,        \* number of update_content_package calls started
  channel_registry,         \* ChannelManager.channels with every modelled field, in insertion order
  config_file,      \* the content of channel_mapping_config.json, or NoFile
  chan_op,          \* the last call on the channel manager, with what it returned
  chan_calls,       \* how many such calls were made
  var_tasks,        \* the generate_optimized_content calls of one generate_content_variations call
  var_call,         \* the generate_content_variations call: its position and its result
  var_calls,        \* how many generate_content_variations calls have started
  poll_task,        \* the image generation call in flight: provider, polls made, last status
  poll_calls,       \* how many image generation calls have started
  parse_log,        \* results of the _parse_tags_response calls, oldest first
  airtable_clients, \* DatabaseManager.airtable_clients: channel id -> client
  clients_created,  \* number of Airtable clients constructed so far
  sink_log          \* the saves, oldest first: the client and sheet used, the config at that time

wfvars ==
  <<channels, packages, active_packages, nextId, now, ticks, tasks,
    collab_calls, created, swept>>
titlevars == <<recent_title_starts, title_tasks, title_calls>>
tagsvars == <<recent_tag_patterns, recent_full_tags, tags_tasks, tags_calls>>
genvars == <<gen_tasks, gen_calls>>
logvars == <<title_log, tags_log>>
cleanvars == <<clean_input, clean_once, clean_twice>>
savevars == <<save_tasks, save_calls>>
updvars == <<sheet, table, upd_task, upd_calls>>
chanvars == <<channel_registry, config_file, chan_op, chan_calls>>
variationvars == <<var_tasks, var_call, var_calls>>
pollvars == <<poll_task, poll_calls>>
parsevars == <<parse_log>>
clientvars == <<airtable_clients, clients_created, sink_log>>
vars == <<wfvars, titlevars, tagsvars, genvars, logvars, cleanvars, savevars, updvars, chanvars, variationvars, pollvars, parsevars, clientvars>>
\* what the workflow actions, the title actions, the tags actions, the
\* generation actions leave alone
notwf == <<titlevars, tagsvars, genvars, logvars, cleanvars, savevars, updvars, chanvars, variationvars, pollvars, parsevars, clientvars>>
nottitle == <<wfvars, tagsvars, genvars, logvars, cleanvars, savevars, updvars, chanvars, variationvars, pollvars, parsevars, clientvars>>
nottags == <<wfvars, titlevars, genvars, logvars, cleanvars, savevars, updvars, chanvars, variationvars, pollvars, parsevars, clientvars>>
notgen == <<wfvars, titlevars, tagsvars, logvars, cleanvars, savevars, updvars, chanvars, variationvars, pollvars, parsevars, clientvars>>
notlog == <<wfvars, titlevars, tagsvars, genvars, cleanvars, savevars, updvars, chanvars, variationvars, pollvars, parsevars, clientvars>>
nottrackers == <<wfvars, genvars, cleanvars, savevars, updvars, chanvars, variationvars, pollvars, parsevars, clientvars>>
notclean == <<wfvars, titlevars, tagsvars, genvars, logvars, savevars, updvars, chanvars, variationvars, pollvars, parsevars, clientvars>>
notsave == <<wfvars, titlevars, tagsvars, genvars, logvars, cleanvars, updvars, chanvars, variationvars, pollvars, parsevars, clientvars>>
notupd == <<wfvars, titlevars, tagsvars, genvars, logvars, cleanvars, savevars, chanvars, variationvars, pollvars, parsevars, clientvars>>
notchan == <<wfvars, titlevars, tagsvars, genvars, logvars, cleanvars, savevars, updvars, variationvars, pollvars, parsevars, clientvars>>
notshared == <<wfvars, genvars, cleanvars, savevars, updvars, chanvars, pollvars, parsevars, clientvars>>
notvariation == <<wfvars, titlevars, tagsvars, genvars, logvars, cleanvars, savevars, updvars, chanvars, pollvars, parsevars, clientvars>>
notpoll == <<wfvars, titlevars, tagsvars, genvars, logvars, cleanvars, savevars, updvars, chanvars, variationvars, parsevars, clientvars>>
notparse == <<wfvars, titlevars, tagsvars, genvars, logvars, cleanvars, savevars, updvars, chanvars, variationvars, pollvars, clientvars>>
notclient == <<wfvars, titlevars, tagsvars, genvars, logvars, cleanvars, savevars, updvars, chanvars, variationvars, pollvars, parsevars>>

(***************************************************************************)
(* ChannelManager lookups.                                                 *)
(***************************************************************************)
NoChannel == [is_none |-> TRUE]

DefaultChannelConfig ==
  [channel_id |-> RegId,
   channel_name |-> "Demo Channel",
   channel_description |-> "Kenh demo"]

get_channel(channel_id) ==
  IF channel_id \in DOMAIN channels THEN channels[channel_id] ELSE NoChannel

validate_channel_setup(channel_id) ==
  [channel_exists |-> get_channel(channel_id) # NoChannel]

enrich_input_data(input_data) ==
  LET channel == get_channel(input_data.channel_id) IN
  IF channel # NoChannel
  THEN [input_data EXCEPT !.channel_name = channel.channel_name,
                          !.channel_description = channel.channel_description]
  ELSE input_data

(***************************************************************************)
(* ContentPackage.  status_history is the sequence of values assigned to   *)
(* status, kept to state the path a package's status follows.              *)
(***************************************************************************)
NoPackage == [is_none |-> TRUE]
NoPkgId == 0

NewPackage(id, channel_id, input_data, t) ==
  [id |-> id,
   channel_id |-> channel_id,
   input_data |-> input_data,
   generated_content |-> NoContent,
   generated_images |-> NoImages,
   status |-> PENDING,
   created_at |-> t,
   updated_at |-> t,
   processing_logs |-> <<>>,
   status_history |-> <<PENDING>>]

\* a variant of add_log that keeps only the newest entry
add_log_KeepsNewest(package, entry, t) ==
  [package EXCEPT !.processing_logs = <<entry>>, !.updated_at = t]

add_log(package, entry, t) ==
  [package EXCEPT !.processing_logs = Append(@, entry), !.updated_at = t]

set_status(package, new_status) ==
  [package EXCEPT !.status = new_status,
                  !.status_history = Append(@, new_status)]

update_status(package, new_status, t) ==
  add_log(set_status(package, new_status), Log("status", new_status), t)

(***************************************************************************)
(* The stages of run_full_workflow.  Each operator is the code a run       *)
(* executes without suspending; it returns the package and the pc the run  *)
(* stops at: the collaborator it awaits, "returned" or "raised".           *)
(***************************************************************************)

\* _initialize_package: the new PENDING package, or the validation error of
\* ContentPackage(channel_id=None).
_initialize_package(input_data, n, t) ==
  LET channel_id ==
        IF input_data.channel_id = NoId /\ input_data.channel_name # None
        THEN AdhocId(slugify(input_data.channel_name), n)
        ELSE input_data.channel_id
  IN IF channel_id = NoId
     THEN [raised |-> TRUE, err |-> ErrValidation, package |-> NoPackage]
     ELSE [raised |-> FALSE, err |-> "",
           package |-> NewPackage(n, channel_id,
                         [input_data EXCEPT !.channel_id = channel_id], t)]

\* a variant of _stage_prepare_data that goes on without a channel config
_stage_prepare_data_NoCheck(package, t) ==
  LET p1 == add_log(package, Log("prepare_begin", ""), t) IN
  [raised |-> FALSE, err |-> "",
   package |-> add_log(p1, Log("prepare_managed", p1.input_data.channel_name), t)]

\* _stage_prepare_data
_stage_prepare_data(package, t) ==
  LET p1 == add_log(package, Log("prepare_begin", ""), t)
      input_data == p1.input_data
  IN IF input_data.channel_name # None /\ input_data.channel_description # None
     THEN [raised |-> FALSE, err |-> "",
           package |-> add_log(p1, Log("prepare_adhoc", input_data.channel_name), t)]
     ELSE IF get_channel(input_data.channel_id) = NoChannel
          THEN [raised |-> TRUE, err |-> ErrNoChannelConfig, package |-> p1]
          ELSE [raised |-> FALSE, err |-> "",
                package |-> add_log(p1,
                  Log("prepare_managed",
                      get_channel(input_data.channel_id).channel_name), t)]

\* a variant of MarkFailed that logs the error and leaves the status alone
MarkFailed_KeepsStatus(package, err, t) ==
  add_log(package, Log("fatal", err), t)

\* the except clause of run_full_workflow
MarkFailed(package, err, t) ==
  add_log(set_status(package, FAILED), Log("fatal", err), t)

\* the end of run_full_workflow: mark GENERATED, log, return
Complete(package, t) ==
  [package |-> add_log(set_status(package, GENERATED), Log("completed", ""), t),
   pc |-> "returned"]

\* _stage_save_to_database up to the await of save_content_package
ToSave(package, t) ==
  [package |-> add_log(package, Log("save_begin", ""), t), pc |-> "save"]

\* a variant of SaveReturned in which a failed save fails the run
SaveReturned_FailsPackage(package, success, t) ==
  IF success THEN Complete(add_log(package, Log("save_ok", ""), t), t)
  ELSE [package |-> MarkFailed(add_log(package, Log("save_failed", ""), t),
                               ErrSave, t),
        pc |-> "raised"]

\* _stage_save_to_database after save_content_package returned `success`
SaveReturned(package, success, t) ==
  Complete(add_log(package,
             Log(IF success THEN "save_ok" ELSE "save_failed", ""), t), t)

\* a variant of SaveRaised in which the run is marked GENERATED before the
\* save and the error of the save reaches the except clause of the run
SaveRaised_Escapes(package, err, t) ==
  [package |-> MarkFailed(set_status(add_log(package, Log("save_error", err), t),
                                     GENERATED), err, t),
   pc |-> "raised"]

\* _stage_save_to_database when save_content_package raised
SaveRaised(package, err, t) ==
  Complete(add_log(package, Log("save_error", err), t), t)

\* a variant of ToImages in which the error of the image stage is not caught
\* by run_full_workflow
ToImages_Escapes(package, t) ==
  IF ~auto_generate_images THEN ToSave(package, t)
  ELSE LET p1 == add_log(package, Log("image_begin", ""), t) IN
       IF p1.generated_content = NoContent
          \/ p1.generated_content.image_prompts = 0
       THEN [package |-> MarkFailed(add_log(p1, Log("image_error", ErrNoPrompts), t),
                                    ErrNoPrompts, t),
             pc |-> "raised"]
       ELSE [package |-> p1, pc |-> "images"]

\* stage 3 up to the await of generate_multiple_images; without prompts the
\* stage raises and run_full_workflow skips the images
ToImages(package, t) ==
  IF ~auto_generate_images THEN ToSave(package, t)
  ELSE LET p1 == add_log(package, Log("image_begin", ""), t) IN
       IF p1.generated_content = NoContent
          \/ p1.generated_content.image_prompts = 0
       THEN ToSave(add_log(add_log(p1, Log("image_error", ErrNoPrompts), t),
                           Log("image_skipped", ErrNoPrompts), t), t)
       ELSE [package |-> p1, pc |-> "images"]

\* stage 3 after generate_multiple_images returned
ImagesReturned(package, generated_images, t) ==
  ToSave(add_log([package EXCEPT !.generated_images = generated_images],
                 Log("image_done", generated_images.additional_images), t), t)

\* stage 2 up to the await of generate_parallel_content
ToContent(package, t) ==
  IF ~auto_generate_content THEN ToImages(package, t)
  ELSE [package |-> add_log(package, Log("content_begin", ""), t),
        pc |-> "content"]

\* stage 2 after generate_parallel_content returned
ContentReturned(package, content, t) ==
  ToImages(add_log([package EXCEPT !.generated_content = content],
                   Log("content_done", content.title), t), t)

\* stage 2 when generate_parallel_content raised
ContentRaised(package, err, t) ==
  [package |-> MarkFailed(add_log(package, Log("content_error", err), t), err, t),
   pc |-> "raised"]

\* run_full_workflow from its entry to its first suspension
RunBegin(input_data, n, t) ==
  LET adhoc ==
        input_data.channel_name # None /\ input_data.channel_description # None
      init ==
        _initialize_package(
          IF adhoc THEN input_data ELSE enrich_input_data(input_data), n, t)
  IN IF init.raised
     THEN [package |-> NoPackage, pc |-> "raised"]
     ELSE LET p1 == add_log(init.package,
                      Log(IF adhoc THEN "workflow_adhoc" ELSE "workflow_managed",
                          ""), t)
              prep == _stage_prepare_data(p1, t)
          IN IF prep.raised
             THEN [package |-> MarkFailed(prep.package, prep.err, t),
                   pc |-> "raised"]
             ELSE ToContent(update_status(prep.package, GENERATING_CONTENT, t), t)

(***************************************************************************)
(* Tasks.  A task is one call of run_full_workflow (kind "run") or of      *)
(* run_batch_workflow (kind "batch") with its input list; idx is the item  *)
(* being run, pkg its package, ran the items that ended, results the list  *)
(* run_batch_workflow builds.  A world is the part of the state a task     *)
(* step changes.                                                           *)
(***************************************************************************)
TaskIds == 1..MaxTasks
\* the calls of run_full_workflow that may be in flight at once where runs
\* are interleaved with each other and with sweeps
MaxRuns == 2
RunIds == 1..MaxRuns

IdleTask ==
  [pc |-> "idle", kind |-> "run", items |-> <<>>, idx |-> 1, pkg |-> NoPkgId,
   results |-> <<>>, ran |-> <<>>, outcome |-> "none"]

World(t) ==
  [task |-> tasks[t], packages |-> packages, active_packages |-> active_packages,
   nextId |-> nextId, collab_calls |-> collab_calls]

RECURSIVE Drive(_, _)
RECURSIVE ItemEnded(_, _, _)

\* a variant of run_batch_workflow without the try/except around the item
run_batch_workflow_Aborts(w, raised, t) ==
  IF raised
  THEN [w EXCEPT !.task.pc = "done", !.task.outcome = "raised"]
  ELSE Drive([w EXCEPT !.task.results = Append(@, w.task.pkg),
                       !.task.idx = @ + 1], t)

\* the loop of run_batch_workflow once an item's run has ended: a raised item
\* is skipped, a returned one appended; the loop goes on with the next item
run_batch_workflow(w, raised, t) ==
  Drive([w EXCEPT !.task.results = IF raised THEN @ ELSE Append(@, w.task.pkg),
                  !.task.idx = @ + 1], t)

\* a call of run_full_workflow by itself: its result is the task's outcome
run_single(w, raised, t) ==
  [w EXCEPT !.task.results = IF raised THEN @ ELSE Append(@, w.task.pkg),
            !.task.pc = "done",
            !.task.outcome = IF raised THEN "raised" ELSE "returned"]

ItemEnded(w, raised, t) ==
  LET entry == [input |-> w.task.items[w.task.idx], pkg |-> w.task.pkg,
                raised |-> raised]
      w1 == [w EXCEPT !.task.ran = Append(@, entry)]
  IN IF w.task.kind = "batch" THEN run_batch_workflow(w1, raised, t)
     ELSE run_single(w1, raised, t)

\* the run stops with result r = [package, pc]: it awaits a collaborator, or
\* the item has ended
Settle(w, r, t) ==
  LET pid == w.task.pkg
      w1 == IF pid = NoPkgId THEN w
            ELSE [w EXCEPT !.packages = [@ EXCEPT ![pid] = r.package]]
  IN IF r.pc \in {"raised", "returned"}
     THEN ItemEnded(w1, r.pc = "raised", t)
     ELSE [w1 EXCEPT !.task.pc = r.pc,
                     !.collab_calls = @ \cup {[pkg |-> pid, kind |-> r.pc]}]

\* the task starts the run of item idx, or returns when the list is done;
\* _initialize_package registers the package under its id
Drive(w, t) ==
  IF w.task.idx > Len(w.task.items)
  THEN [w EXCEPT !.task.pc = "done", !.task.outcome = "returned",
                 !.task.pkg = NoPkgId]
  ELSE LET n == w.nextId
           r == RunBegin(w.task.items[w.task.idx], n, t)
           w1 == IF r.package = NoPackage
                 THEN [w EXCEPT !.nextId = n + 1, !.task.pkg = NoPkgId]
                 ELSE [w EXCEPT !.nextId = n + 1, !.task.pkg = n,
                                !.packages = (n :> r.package) @@ @,
                                !.active_packages = @ \cup {n}]
       IN Settle(w1, r, t)

Apply(t, w) ==
  /\ tasks' = [tasks EXCEPT ![t] = w.task]
  /\ packages' = w.packages
  /\ active_packages' = w.active_packages
  /\ nextId' = w.nextId
  /\ collab_calls' = w.collab_calls

\* ids still to be drawn by the items the tasks have not started yet
Pending ==
  LET Left(tk) == IF tk.pc \in {"idle", "done"} THEN 0
                  ELSE Len(tk.items) - tk.idx
      RECURSIVE Sum(_)
      Sum(S) == IF S = {} THEN 0
                ELSE LET x == CHOOSE x \in S : TRUE IN Left(tasks[x]) + Sum(S \ {x})
  IN Sum(DOMAIN tasks)

Room == MaxPkgs - (nextId - 1) - Pending

BatchInputs == UNION {[1..k -> InputData] : k \in 0..MaxBatch}

(***************************************************************************)
(* Collaborator results.                                                   *)
(***************************************************************************)
Titles == {"Relaxing Piano"}
GeneratedContents ==
  [is_none : {FALSE}, title : Titles, image_prompts : {0, 3}]
\* what the image provider does with a request: it fails (an error status, a
\* timeout, an exception), or it returns the urls of its images
ProviderResults ==
  {[failed |-> TRUE, urls |-> 0], [failed |-> FALSE, urls |-> 4]}

\* generate_multiple_images: the urls the provider returned, or the empty
\* GeneratedImages() when it failed or raised
generate_multiple_images(result) ==
  IF result.failed \/ result.urls = 0
  THEN [is_none |-> FALSE, midjourney_urls |-> 0, additional_images |-> 0]
  ELSE [is_none |-> FALSE, midjourney_urls |-> result.urls,
        additional_images |-> result.urls]

\* save_content_package: success iff one of the two sinks succeeded
save_content_package(google_success, airtable_success) ==
  google_success \/ airtable_success

(***************************************************************************)
(* create_content_package: the package it registers and returns, or the    *)
(* ValueError it raises when the channel is not in the registry.           *)
(***************************************************************************)
create_content_package(input_data, n, t) ==
  LET channel_id ==
        IF input_data.channel_id = NoId
        THEN AdhocId(slugify(IF input_data.channel_name = None
                             THEN "unknown-channel"
                             ELSE input_data.channel_name), n)
        ELSE input_data.channel_id
      channel_setup == validate_channel_setup(channel_id)
      enriched_input_data ==
        enrich_input_data([input_data EXCEPT !.channel_id = channel_id])
  IN IF ~channel_setup.channel_exists
     THEN [raised |-> TRUE, err |-> ErrChannelMissing, package |-> NoPackage]
     ELSE [raised |-> FALSE, err |-> "",
           package |-> add_log(NewPackage(n, channel_id, enriched_input_data, t),
                               Log("created", enriched_input_data.channel_name), t)]

NotCreated ==
  [out |-> "none", pkg |-> NoPkgId,
   input |-> [channel_id |-> NoId, channel_name |-> None,
              channel_description |-> None]]

(***************************************************************************)
(* cleanup_completed_packages: the registry it leaves.                     *)
(***************************************************************************)
\* a variant of cleanup_completed_packages that also removes a package whose
\* age equals max_age
cleanup_completed_packages_Inclusive(registry, max_age_hours, t) ==
  registry \ {id \in registry :
                 /\ packages[id].status \in {GENERATED, PUBLISHED, FAILED}
                 /\ t - packages[id].updated_at >= max_age_hours * SecondsPerHour}

\* variant: the sweep removes old packages whatever their status
cleanup_completed_packages_AnyStatus(registry, max_age_hours, t) ==
  LET packages_to_remove ==
        {id \in registry : t - packages[id].updated_at > max_age_hours * SecondsPerHour}
  IN registry \ packages_to_remove

cleanup_completed_packages(registry, max_age_hours, t) ==
  LET packages_to_remove ==
        {id \in registry :
           /\ packages[id].status \in {GENERATED, PUBLISHED, FAILED}
           /\ t - packages[id].updated_at > max_age_hours * SecondsPerHour}
  IN registry \ packages_to_remove

NotSwept == [called |-> FALSE, max_age_hours |-> 0, at |-> 0, before |-> {}]

MaxAgeHours == {0, 1}
TickSteps == {1, SecondsPerHour}

(***************************************************************************)
(* Actions.                                                                *)
(***************************************************************************)
WfVarsInit ==
  /\ channels = (RegId :> DefaultChannelConfig)
  /\ packages = <<>>
  /\ active_packages = {}
  /\ nextId = 1
  /\ now = 0
  /\ ticks = 0
  /\ tasks = [t \in TaskIds \cup RunIds |-> IdleTask]
  /\ collab_calls = {}
  /\ created = NotCreated
  /\ swept = NotSwept

StartRun(t, input_data) ==
  /\ tasks[t].pc \in {"idle", "done"}
  /\ Room >= 1
  /\ Apply(t, Drive([World(t) EXCEPT
             !.task = [IdleTask EXCEPT !.kind = "run",
                                       !.items = <<input_data>>]], now))
  /\ UNCHANGED <<channels, now, ticks, created, swept, notwf>>

StartBatch(t, input_data_list) ==
  /\ tasks[t].pc \in {"idle", "done"}
  /\ Room >= Len(input_data_list)
  /\ Apply(t, Drive([World(t) EXCEPT
             !.task = [IdleTask EXCEPT !.kind = "batch",
                                       !.items = input_data_list]], now))
  /\ UNCHANGED <<channels, now, ticks, created, swept, notwf>>

ContentDone(t, content) ==
  /\ tasks[t].pc = "content"
  /\ Apply(t, Settle(World(t),
             ContentReturned(packages[tasks[t].pkg], content, now), now))
  /\ UNCHANGED <<channels, now, ticks, created, swept, notwf>>

ContentFailed(t) ==
  /\ tasks[t].pc = "content"
  /\ Apply(t, Settle(World(t),
             ContentRaised(packages[tasks[t].pkg], ErrContent, now), now))
  /\ UNCHANGED <<channels, now, ticks, created, swept, notwf>>

ImagesDone(t, result) ==
  /\ tasks[t].pc = "images"
  /\ Apply(t, Settle([World(t) EXCEPT !.collab_calls =
                        IF result.failed
                        THEN @ \cup {[pkg |-> tasks[t].pkg,
                                      kind |-> "images_failed"]}
                        ELSE @],
             ImagesReturned(packages[tasks[t].pkg],
                            generate_multiple_images(result), now), now))
  /\ UNCHANGED <<channels, now, ticks, created, swept, notwf>>

SaveDone(t, google_success, airtable_success) ==
  /\ tasks[t].pc = "save"
  /\ Apply(t, Settle([World(t) EXCEPT !.collab_calls =
                        IF google_success /\ airtable_success THEN @
                        ELSE @ \cup {[pkg |-> tasks[t].pkg,
                                      kind |-> "sink_failed"]}],
             SaveReturned(packages[tasks[t].pkg],
                          save_content_package(google_success, airtable_success),
                          now), now))
  /\ UNCHANGED <<channels, now, ticks, created, swept, notwf>>

SaveFailed(t) ==
  /\ tasks[t].pc = "save"
  /\ Apply(t, Settle([World(t) EXCEPT !.collab_calls =
                        @ \cup {[pkg |-> tasks[t].pkg, kind |-> "save_raised"]}],
             SaveRaised(packages[tasks[t].pkg], ErrSave, now), now))
  /\ UNCHANGED <<channels, now, ticks, created, swept, notwf>>

CreateContentPackage(input_data) ==
  /\ Room >= 1
  /\ LET r == create_content_package(input_data, nextId, now) IN
     /\ nextId' = nextId + 1
     /\ IF r.raised
        THEN /\ created' = [out |-> "raised", pkg |-> NoPkgId,
                            input |-> input_data]
             /\ UNCHANGED <<packages, active_packages>>
        ELSE /\ created' = [out |-> "returned", pkg |-> nextId,
                            input |-> input_data]
             /\ packages' = (nextId :> r.package) @@ packages
             /\ active_packages' = active_packages \cup {nextId}
  /\ UNCHANGED <<channels, now, ticks, tasks, collab_calls, swept, notwf>>

Sweep(max_age_hours) ==
  /\ active_packages' =
       cleanup_completed_packages(active_packages, max_age_hours, now)
  /\ swept' = [called |-> TRUE, max_age_hours |-> max_age_hours, at |-> now,
               before |-> active_packages]
  /\ UNCHANGED <<channels, packages, nextId, now, ticks, tasks, collab_calls,
                 created, notwf>>

Tick(d) ==
  /\ ticks < MaxTicks
  /\ ticks' = ticks + 1
  /\ now' = now + d
  /\ UNCHANGED <<channels, packages, active_packages, nextId, tasks,
                 collab_calls, created, swept, notwf>>

WfNext ==
  \/ \E t \in TaskIds, input_data \in InputData : StartRun(t, input_data)
  \/ \E t \in TaskIds, input_data_list \in BatchInputs :
       StartBatch(t, input_data_list)
  \/ \E t \in TaskIds, content \in GeneratedContents : ContentDone(t, content)
  \/ \E t \in TaskIds : ContentFailed(t)
  \/ \E t \in TaskIds, result \in ProviderResults : ImagesDone(t, result)
  \/ \E t \in TaskIds, g \in BOOLEAN, a \in BOOLEAN : SaveDone(t, g, a)
  \/ \E t \in TaskIds : SaveFailed(t)
  \/ \E input_data \in InputData : CreateContentPackage(input_data)

(***************************************************************************)
(* The title diversity tracker and the title orchestrator (ai_service.py). *)
(* A title is the sequence of its words (title.split()).                   *)
(***************************************************************************)
max_diversity_history == 20
max_attempts == 3
MaxTitleTasks == 2
MaxTitleCalls == 3

lower(w) ==
  CASE w = "Relaxing" -> "relaxing"
    [] w = "Calm" -> "calm"
    [] w = "None" -> "none"
    [] w = "Channel" -> "channel"
    [] OTHER -> w

first_word(title) == IF title = <<>> THEN "" ELSE lower(title[1])

RECURSIVE Count(_, _)
Count(seq, x) ==
  IF seq = <<>> THEN 0
  ELSE (IF Head(seq) = x THEN 1 ELSE 0) + Count(Tail(seq), x)

Max(a, b) == IF a >= b THEN a ELSE b

\* a variant of _track_title_diversity that evicts the newest entry
_track_title_diversity_EvictsNewest(history, title) ==
  IF title = <<>> THEN history
  ELSE IF first_word(title) = "" THEN history
  ELSE LET h == Append(history, first_word(title)) IN
       IF Len(h) > max_diversity_history THEN SubSeq(h, 1, Len(h) - 1) ELSE h

\* _track_title_diversity: the history after recording `title`
_track_title_diversity(history, title) ==
  IF title = <<>> THEN history
  ELSE IF first_word(title) = "" THEN history
  ELSE LET h == Append(history, first_word(title)) IN
       IF Len(h) > max_diversity_history THEN Tail(h) ELSE h

\* a variant of _is_title_diverse that allows one occurrence more
_is_title_diverse_AllowsOneMore(history, title) ==
  IF title = <<>> \/ history = <<>> THEN TRUE
  ELSE IF first_word(title) = "" THEN TRUE
  ELSE LET recent_count == Count(history, first_word(title))
           max_allowed == Max(1, max_diversity_history \div 10)
       IN recent_count <= max_allowed

\* _is_title_diverse
_is_title_diverse(history, title) ==
  IF title = <<>> \/ history = <<>> THEN TRUE
  ELSE IF first_word(title) = "" THEN TRUE
  ELSE LET recent_count == Count(history, first_word(title))
           max_allowed == Max(1, max_diversity_history \div 10)
       IN recent_count < max_allowed

\* the requests: video_topic and channel_name, as word sequences
NoTitle == <<"<none>">>
TitleRequests ==
  {[video_topic |-> <<"sunset", "timelapse">>, channel_name |-> <<"Calm", "Channel">>],
   [video_topic |-> <<"None">>, channel_name |-> <<"Calm", "Channel">>],
   [video_topic |-> <<>>, channel_name |-> <<"Calm", "Channel">>]}

\* f"{input_data.video_topic} | {input_data.channel_name}"
fallback_title(input_data) ==
  input_data.video_topic \o <<"|">> \o input_data.channel_name

\* the titles parsed from the responses of the text collaborator
ParsedTitles ==
  {<<>>, <<"Relaxing", "Piano">>, <<"relaxing", "rain">>, <<"Calm", "Night">>,
   <<"sunset", "timelapse", "|", "Calm", "Channel">>}

TitleTaskIds == 1..MaxTitleTasks

IdleTitleTask ==
  [pc |-> "idle", input_data |-> CHOOSE r \in TitleRequests : TRUE,
   attempt |-> 0, attempts |-> <<>>, title |-> NoTitle,
   thumbnail_text |-> "", via |-> "none", recorded |-> <<>>]

\* the titles a call of _track_title_diversity(title) adds to the history
Recorded(history, title) ==
  IF _track_title_diversity(history, title) # history THEN <<title>> ELSE <<>>

\* a variant of TitleFallback that returns the fallback title unrecorded
TitleFallback_NotRecorded(tk, history) ==
  [task |-> [tk EXCEPT !.pc = "done", !.via = "fallback",
                       !.title = fallback_title(tk.input_data),
                       !.thumbnail_text = "WATCH NOW"],
   history |-> history]

\* the fallback after the loop: record the fallback title and return it
TitleFallback(tk, history) ==
  [task |-> [tk EXCEPT !.pc = "done", !.via = "fallback",
                       !.title = fallback_title(tk.input_data),
                       !.thumbnail_text = "WATCH NOW",
                       !.recorded = @ \o Recorded(history,
                                                  fallback_title(tk.input_data))],
   history |-> _track_title_diversity(history, fallback_title(tk.input_data))]

\* a variant of TitleNextAttempt whose loop makes one attempt more
TitleNextAttempt_OneMore(tk, history) ==
  IF tk.attempt < max_attempts
  THEN [task |-> [tk EXCEPT !.attempt = @ + 1], history |-> history]
  ELSE TitleFallback(tk, history)

\* the end of a failed attempt: the next iteration issues the next request,
\* or the loop is over
TitleNextAttempt(tk, history) ==
  IF tk.attempt < max_attempts - 1
  THEN [task |-> [tk EXCEPT !.attempt = @ + 1], history |-> history]
  ELSE TitleFallback(tk, history)

\* one iteration of the loop after _generate_content returned a response
\* whose parsed title is `title`
\* variant: the title of an attempt is taken without the diversity check
TitleAttempt_Unchecked(tk, history, title) ==
  [task |-> [tk EXCEPT !.pc = "done", !.via = "diverse", !.title = title,
                       !.thumbnail_text = "ENGAGING",
                       !.attempts = Append(@, [raised |-> FALSE, title |-> title,
                                               diverse |-> TRUE]),
                       !.recorded = @ \o Recorded(history, title)],
   history |-> _track_title_diversity(history, title)]

TitleAttempt(tk, history, title) ==
  LET diverse == _is_title_diverse(history, title)
      tk1 == [tk EXCEPT !.attempts =
                Append(@, [raised |-> FALSE, title |-> title, diverse |-> diverse])]
  IN IF diverse
     THEN [task |-> [tk1 EXCEPT !.pc = "done", !.via = "diverse", !.title = title,
                                !.thumbnail_text = "ENGAGING",
                                !.recorded = @ \o Recorded(history, title)],
           history |-> _track_title_diversity(history, title)]
     ELSE TitleNextAttempt(tk1, history)

\* one iteration of the loop when the attempt raised
TitleAttemptRaised(tk, history) ==
  TitleNextAttempt(
    [tk EXCEPT !.attempts =
       Append(@, [raised |-> TRUE, title |-> NoTitle, diverse |-> FALSE])],
    history)

TitleVarsInit ==
  /\ recent_title_starts = <<>>
  /\ title_tasks = [k \in TitleTaskIds |-> IdleTitleTask]
  /\ title_calls = 0

TitleStart(k, input_data) ==
  /\ title_tasks[k].pc \in {"idle", "done"}
  /\ title_calls < MaxTitleCalls
  /\ title_calls' = title_calls + 1
  /\ title_tasks' = [title_tasks EXCEPT ![k] =
        [IdleTitleTask EXCEPT !.pc = "awaiting", !.input_data = input_data]]
  /\ UNCHANGED <<recent_title_starts, nottitle>>

TitleResponse(k, title) ==
  /\ title_tasks[k].pc = "awaiting"
  /\ LET r == TitleAttempt(title_tasks[k], recent_title_starts, title) IN
     /\ title_tasks' = [title_tasks EXCEPT ![k] = r.task]
     /\ recent_title_starts' = r.history
  /\ UNCHANGED <<title_calls, nottitle>>

TitleException(k) ==
  /\ title_tasks[k].pc = "awaiting"
  /\ LET r == TitleAttemptRaised(title_tasks[k], recent_title_starts) IN
     /\ title_tasks' = [title_tasks EXCEPT ![k] = r.task]
     /\ recent_title_starts' = r.history
  /\ UNCHANGED <<title_calls, nottitle>>

TitleNext ==
  \/ \E k \in TitleTaskIds, input_data \in TitleRequests : TitleStart(k, input_data)
  \/ \E k \in TitleTaskIds, title \in ParsedTitles : TitleResponse(k, title)
  \/ \E k \in TitleTaskIds : TitleException(k)

(***************************************************************************)
(* Tags (ai_service.py).  A Python str is the sequence of its characters,  *)
(* a tag list is a sequence of such strings.                               *)
(***************************************************************************)
max_tag_diversity_history == 15
max_tags == 15
max_fallback_tags == 12
min_tag_len == 2
max_tag_len == 50

Digits == {"0", "1", "2", "3", "4", "5", "6", "7", "8", "9"}
Whitespace == {" "}
\* the character class of the regex for leading numbers, bullets, quotes
LeadingClass ==
  {"#", "-", "*", ".", "\"", "'", "(", ")", "[", "]"} \cup Digits \cup Whitespace
\* the character class of the regex for trailing punctuation
TrailingClass ==
  {"\"", "'", ",", ".", "!", "?", ";", ":", "(", ")", "[", "]"} \cup Whitespace
\* the character class of the regex for special characters (but the
\* backslash and the backquote, which no string of the model holds)
SpecialChars ==
  {"!", "@", "#", "$", "%", "^", "&", "*", "(", ")", "_", "+", "=", "[", "]", "{", "}", "|", ";", ":", "'", "\"", ",", ".", "<", ">", "?", "/", "~"}
\* string.punctuation
Punctuation == SpecialChars \cup {"-"}

lower_char(c) ==
  CASE c = "A" -> "a" [] c = "B" -> "b" [] c = "C" -> "c" [] c = "D" -> "d"
    [] c = "E" -> "e" [] c = "F" -> "f" [] c = "G" -> "g" [] c = "H" -> "h"
    [] c = "I" -> "i" [] c = "J" -> "j" [] c = "K" -> "k" [] c = "L" -> "l"
    [] c = "M" -> "m" [] c = "N" -> "n" [] c = "O" -> "o" [] c = "P" -> "p"
    [] c = "Q" -> "q" [] c = "R" -> "r" [] c = "S" -> "s" [] c = "T" -> "t"
    [] c = "U" -> "u" [] c = "V" -> "v" [] c = "W" -> "w" [] c = "X" -> "x"
    [] c = "Y" -> "y" [] c = "Z" -> "z"
    [] OTHER -> c

\* str.lower
lower_str(s) == [i \in 1..Len(s) |-> lower_char(s[i])]

RECURSIVE DropLeading(_, _)
DropLeading(s, class) ==
  IF s # <<>> /\ Head(s) \in class THEN DropLeading(Tail(s), class) ELSE s

RECURSIVE DropTrailing(_, _)
DropTrailing(s, class) ==
  IF s # <<>> /\ s[Len(s)] \in class
  THEN DropTrailing(SubSeq(s, 1, Len(s) - 1), class)
  ELSE s

\* re.sub of a character class by the empty string, and str.replace
Remove(s, class) == SelectSeq(s, LAMBDA c : c \notin class)

\* str.strip
strip(s) == DropTrailing(DropLeading(s, Whitespace), Whitespace)

RECURSIVE TakeWord(_)
TakeWord(s) ==
  IF s = <<>> \/ Head(s) \in Whitespace THEN <<>>
  ELSE <<Head(s)>> \o TakeWord(Tail(s))

\* str.split
RECURSIVE split(_)
split(s) ==
  LET t == DropLeading(s, Whitespace) IN
  IF t = <<>> THEN <<>>
  ELSE LET w == TakeWord(t) IN <<w>> \o split(SubSeq(t, Len(w) + 1, Len(t)))

isdigit(s) == s # <<>> /\ \A i \in 1..Len(s) : s[i] \in Digits
startswith(s, p) == Len(s) >= Len(p) /\ SubSeq(s, 1, Len(p)) = p
InSeq(x, seq) == \E i \in 1..Len(seq) : seq[i] = x
Min(a, b) == IF a <= b THEN a ELSE b

\* the stop words of _clean_and_validate_tags
stop_words ==
  {<<"y", "o", "u", "t", "u", "b", "e">>,
   <<"v", "i", "d", "e", "o">>,
   <<"c", "o", "n", "t", "e", "n", "t">>,
   <<"a", "m", "a", "z", "i", "n", "g">>,
   <<"s", "u", "b", "s", "c", "r", "i", "b", "e">>,
   <<"l", "i", "k", "e">>,
   <<"s", "h", "a", "r", "e">>,
   <<"c", "o", "m", "m", "e", "n", "t">>,
   <<"w", "i", "t", "h">>,
   <<"a", "n", "d">>,
   <<"t", "h", "e">>,
   <<"f", "o", "r">>,
   <<"o", "f">>,
   <<"i", "n">>,
   <<"t", "o">>,
   <<"a">>,
   <<"a", "n">>,
   <<"i", "s">>,
   <<"a", "r", "e">>,
   <<"w", "a", "s">>,
   <<"w", "e", "r", "e">>,
   <<"b", "e">>,
   <<"b", "e", "e", "n">>,
   <<"b", "e", "i", "n", "g">>,
   <<"h", "a", "v", "e">>,
   <<"h", "a", "s">>,
   <<"h", "a", "d">>,
   <<"d", "o">>,
   <<"d", "o", "e", "s">>,
   <<"d", "i", "d">>,
   <<"w", "i", "l", "l">>,
   <<"w", "o", "u", "l", "d">>,
   <<"c", "o", "u", "l", "d">>,
   <<"s", "h", "o", "u", "l", "d">>,
   <<"m", "a", "y">>,
   <<"m", "i", "g", "h", "t">>,
   <<"m", "u", "s", "t">>,
   <<"c", "a", "n">>,
   <<"t", "a", "g">>,
   <<"t", "a", "g", "s">>,
   <<"w", "a", "t", "c", "h">>,
   <<"n", "o", "w">>}

\* the cleaning of one tag, step by step as the code does it
clean_tag(tag) ==
  LET t1 == lower_str(strip(tag))
      t2 == DropLeading(t1, LeadingClass)
      t3 == DropTrailing(t2, TrailingClass)
      t4 == Remove(Remove(t3, {"."}), {","})
      t5 == Remove(t4, SpecialChars)
      t6 == SelectSeq(t5, LAMBDA c : c \notin Punctuation \/ c \in {"-", " "})
      t7 == Remove(Remove(t6, {" "}), {"-"})
  IN strip(t7)

RECURSIVE clean_loop(_, _)
clean_loop(tags, cleaned_tags) ==
  IF tags = <<>> THEN cleaned_tags
  ELSE LET tag == Head(tags)
           c == clean_tag(tag)
           keep == /\ tag # <<>>
                   /\ c # <<>>
                   /\ Len(c) >= min_tag_len
                   /\ Len(c) <= max_tag_len
                   /\ ~InSeq(c, cleaned_tags)
                   /\ ~startswith(c, <<"t", "a", "g">>)
                   /\ c \notin stop_words
                   /\ ~isdigit(c)
       IN clean_loop(Tail(tags),
                     IF keep THEN Append(cleaned_tags, c) ELSE cleaned_tags)

_clean_and_validate_tags(tags) ==
  LET cleaned_tags == clean_loop(tags, <<>>)
  IN SubSeq(cleaned_tags, 1, Min(max_tags, Len(cleaned_tags)))

\* tag.split()[0].lower(), or the empty string
tag_first_word(tag) ==
  LET words == split(tag) IN IF words = <<>> THEN <<>> ELSE lower_str(words[1])

\* tag.lower().strip()
full_tag(tag) == strip(lower_str(tag))

tag_patterns(tags) ==
  SelectSeq([i \in 1..Len(tags) |-> tag_first_word(tags[i])], LAMBDA w : w # <<>>)
full_tags(tags) ==
  SelectSeq([i \in 1..Len(tags) |-> full_tag(tags[i])], LAMBDA w : w # <<>>)

Evict(history) ==
  IF Len(history) > max_tag_diversity_history THEN Tail(history) ELSE history

\* a variant of _track_tag_diversity that never evicts from the full-tag
\* history
_track_tag_diversity_FullsUncapped(patterns, fulls, tags) ==
  [patterns |-> IF tag_patterns(tags) # <<>>
                THEN Evict(Append(patterns, tag_patterns(tags))) ELSE patterns,
   fulls |-> IF full_tags(tags) # <<>>
             THEN Append(fulls, full_tags(tags)) ELSE fulls]

\* _track_tag_diversity: the two histories after recording `tags`
_track_tag_diversity(patterns, fulls, tags) ==
  [patterns |-> IF tag_patterns(tags) # <<>>
                THEN Evict(Append(patterns, tag_patterns(tags))) ELSE patterns,
   fulls |-> IF full_tags(tags) # <<>>
             THEN Evict(Append(fulls, full_tags(tags))) ELSE fulls]

RECURSIVE Flatten(_)
Flatten(history) ==
  IF history = <<>> THEN <<>> ELSE Head(history) \o Flatten(Tail(history))

\* a variant of _is_tags_diverse that tolerates one exact repeat
_is_tags_diverse_OneDuplicate(patterns, fulls, tags) ==
  IF tags = <<>> \/ patterns = <<>> THEN TRUE
  ELSE LET current_patterns == tag_patterns(tags)
           current_full_tags == full_tags(tags)
       IN IF current_patterns = <<>> /\ current_full_tags = <<>> THEN TRUE
          ELSE LET all_recent_patterns == Flatten(patterns)
                   all_recent_full_tags == Flatten(fulls)
                   overused_count ==
                     Cardinality({i \in 1..Len(current_patterns) :
                        Count(all_recent_patterns, current_patterns[i]) >= 2})
                   duplicate_full_tags ==
                     Cardinality({i \in 1..Len(current_full_tags) :
                        Count(all_recent_full_tags, current_full_tags[i]) >= 1})
                   max_allowed_overlap == Max(1, Len(current_patterns) \div 5)
                   max_allowed_duplicates == 1
               IN /\ overused_count <= max_allowed_overlap
                  /\ duplicate_full_tags <= max_allowed_duplicates

\* _is_tags_diverse
_is_tags_diverse(patterns, fulls, tags) ==
  IF tags = <<>> \/ patterns = <<>> THEN TRUE
  ELSE LET current_patterns == tag_patterns(tags)
           current_full_tags == full_tags(tags)
       IN IF current_patterns = <<>> /\ current_full_tags = <<>> THEN TRUE
          ELSE LET all_recent_patterns == Flatten(patterns)
                   all_recent_full_tags == Flatten(fulls)
                   overused_count ==
                     Cardinality({i \in 1..Len(current_patterns) :
                        Count(all_recent_patterns, current_patterns[i]) >= 2})
                   duplicate_full_tags ==
                     Cardinality({i \in 1..Len(current_full_tags) :
                        Count(all_recent_full_tags, current_full_tags[i]) >= 1})
                   max_allowed_overlap == Max(1, Len(current_patterns) \div 5)
                   max_allowed_duplicates == 0
               IN /\ overused_count <= max_allowed_overlap
                  /\ duplicate_full_tags <= max_allowed_duplicates

\* the stop words of _generate_fallback_tags
fallback_stop_words ==
  {<<"w", "i", "t", "h">>,
   <<"a", "n", "d">>,
   <<"t", "h", "e">>,
   <<"f", "o", "r">>,
   <<"o", "f">>,
   <<"i", "n">>,
   <<"t", "o">>,
   <<"a">>,
   <<"a", "n">>,
   <<"i", "s">>,
   <<"a", "r", "e">>,
   <<"w", "a", "s">>,
   <<"w", "e", "r", "e">>}

relaxation_tags ==
  <<<<"m", "u", "s", "i", "c">>,
    <<"r", "e", "l", "a", "x">>,
    <<"h", "e", "a", "l", "i", "n", "g", "m", "u", "s", "i", "c">>,
    <<"p", "i", "a", "n", "o">>,
    <<"w", "a", "t", "e", "r", "s", "o", "u", "n", "d", "s">>,
    <<"r", "e", "l", "a", "x", "i", "n", "g", "c", "a", "l", "m", "i", "n", "g">>,
    <<"h", "e", "l", "i", "o", "s", "4", "k">>,
    <<"s", "l", "e", "e", "p", "m", "u", "s", "i", "c">>,
    <<"i", "n", "n", "e", "r", "p", "e", "a", "c", "e">>,
    <<"r", "e", "l", "a", "x", "i", "n", "g", "m", "u", "s", "i", "c">>,
    <<"m", "e", "d", "i", "t", "a", "t", "i", "o", "n">>,
    <<"m", "i", "n", "d", "f", "u", "l", "n", "e", "s", "s">>,
    <<"p", "e", "a", "c", "e", "f", "u", "l">>,
    <<"n", "a", "t", "u", "r", "e">>,
    <<"a", "m", "b", "i", "e", "n", "t">>,
    <<"c", "a", "l", "m", "i", "n", "g">>,
    <<"s", "o", "o", "t", "h", "i", "n", "g">>,
    <<"z", "e", "n">>,
    <<"s", "p", "a">>>>

\* the loop over topic_words, and over title_words
RECURSIVE add_words(_, _)
add_words(words, fallback_tags) ==
  IF words = <<>> THEN fallback_tags
  ELSE LET clean_word == Remove(Head(words), {".", ",", "!", "?"})
           keep == /\ Len(clean_word) > 2
                   /\ ~InSeq(clean_word, fallback_tags)
                   /\ clean_word \notin fallback_stop_words
       IN add_words(Tail(words),
                    IF keep THEN Append(fallback_tags, clean_word)
                    ELSE fallback_tags)

\* the loop over relaxation_tags, with its break
RECURSIVE add_relaxation_tags(_, _)
add_relaxation_tags(pool, fallback_tags) ==
  IF pool = <<>> THEN fallback_tags
  ELSE IF InSeq(Head(pool), fallback_tags)
       THEN add_relaxation_tags(Tail(pool), fallback_tags)
       ELSE LET f == Append(fallback_tags, Head(pool)) IN
            IF Len(f) >= max_fallback_tags THEN f
            ELSE add_relaxation_tags(Tail(pool), f)

channel_tag(channel_name) == Remove(lower_str(channel_name), {" ", ".", ","})

_generate_fallback_tags(input_data, title) ==
  LET f1 == IF input_data.channel_name # <<>>
               /\ Len(channel_tag(input_data.channel_name)) > 2
            THEN <<channel_tag(input_data.channel_name)>> ELSE <<>>
      f2 == add_words(split(lower_str(input_data.video_topic)), f1)
      f3 == add_words(split(lower_str(title)), f2)
      f4 == add_relaxation_tags(relaxation_tags, f3)
  IN SubSeq(f4, 1, Min(max_fallback_tags, Len(f4)))

(***************************************************************************)
(* The tags orchestrator _generate_tags.  A call suspends at its request   *)
(* to the text collaborator; the rest of an attempt runs without           *)
(* suspension.  `attempts` lists the attempts made, `recorded` the lists   *)
(* the call added to the histories.                                        *)
(***************************************************************************)
MaxTagsTasks == 1
MaxTagsCalls == 2

\* the requests: channel name, topic, and the title made before the tags
TagsRequests ==
  {[channel_name |-> <<"C", "a", "l", "m", " ", "C", "h", "a", "n", "n", "e", "l">>, video_topic |-> <<"r", "a", "i", "n", " ", "f", "o", "r", " ", "s", "l", "e", "e", "p">>,
    title |-> <<"C", "a", "l", "m", " ", "R", "a", "i", "n">>],
   [channel_name |-> <<>>, video_topic |-> <<>>, title |-> <<>>]}

\* the lists _parse_tags_response returns
ParsedTags ==
  {<<>>,
   <<<<"m", "u", "s", "i", "c">>, <<"p", "i", "a", "n", "o">>>>,
   <<<<"M", "u", "s", "i", "c">>, <<"r", "a", "i", "n">>>>,
   <<<<"!", "4", "k">>, <<"P", "i", "a", "n", "o", " ", "M", "u", "s", "i", "c">>, <<"p", "i", "a", "n", "o", "-", "m", "u", "s", "i", "c">>>>,
   <<<<"!">>, <<"t", "a", "g", "s">>>>}

NoTags == <<<<"<", "n", "o", "n", "e", ">">>>>
TagsTaskIds == 1..MaxTagsTasks

IdleTagsTask ==
  [pc |-> "idle", input_data |-> CHOOSE r \in TagsRequests : TRUE,
   attempt |-> 0, attempts |-> <<>>, tags |-> NoTags, via |-> "none",
   recorded |-> <<>>]

TagHistories == [patterns |-> recent_tag_patterns, fulls |-> recent_full_tags]

\* the lists a call of _track_tag_diversity(tags) adds to the histories
RecordedTags(h, tags) ==
  IF _track_tag_diversity(h.patterns, h.fulls, tags) # h THEN <<tags>> ELSE <<>>

\* a variant of TagsFallback that checks the fallback list for diversity
\* and returns nothing when the check fails
TagsFallback_Checked(tk, h) ==
  LET fallback_tags == _generate_fallback_tags(tk.input_data, tk.input_data.title) IN
  IF _is_tags_diverse(h.patterns, h.fulls, fallback_tags)
  THEN [task |-> [tk EXCEPT !.pc = "done", !.via = "fallback",
                            !.tags = fallback_tags,
                            !.recorded = @ \o RecordedTags(h, fallback_tags)],
        histories |-> _track_tag_diversity(h.patterns, h.fulls, fallback_tags)]
  ELSE [task |-> [tk EXCEPT !.pc = "done", !.via = "fallback", !.tags = <<>>],
        histories |-> h]

\* after the loop: build the fallback list, record it, return it
TagsFallback(tk, h) ==
  LET fallback_tags == _generate_fallback_tags(tk.input_data, tk.input_data.title) IN
  [task |-> [tk EXCEPT !.pc = "done", !.via = "fallback",
                       !.tags = fallback_tags,
                       !.recorded = @ \o RecordedTags(h, fallback_tags)],
   histories |-> _track_tag_diversity(h.patterns, h.fulls, fallback_tags)]

\* `continue`: the next iteration issues the next request, or the loop is over
TagsNextAttempt(tk, h) ==
  IF tk.attempt < max_attempts - 1
  THEN [task |-> [tk EXCEPT !.attempt = @ + 1], histories |-> h]
  ELSE TagsFallback(tk, h)

\* one iteration of the loop after the response was parsed into `parsed`
TagsAttempt(tk, h, parsed) ==
  LET tags == IF parsed # <<>> THEN _clean_and_validate_tags(parsed) ELSE <<>>
      diverse == parsed # <<>> /\ _is_tags_diverse(h.patterns, h.fulls, tags)
      tk1 == [tk EXCEPT !.attempts =
                Append(@, [raised |-> FALSE, parsed |-> parsed, tags |-> tags,
                           diverse |-> diverse])]
  IN IF diverse
     THEN [task |-> [tk1 EXCEPT !.pc = "done", !.via = "diverse", !.tags = tags,
                                !.recorded = @ \o RecordedTags(h, tags)],
           histories |-> _track_tag_diversity(h.patterns, h.fulls, tags)]
     ELSE TagsNextAttempt(tk1, h)

\* a variant of TagsAttemptRaised that lets the exception leave the call
TagsAttemptRaised_Escapes(tk, h) ==
  [task |-> [tk EXCEPT !.pc = "raised",
               !.attempts = Append(@, [raised |-> TRUE, parsed |-> <<>>,
                                       tags |-> <<>>, diverse |-> FALSE])],
   histories |-> h]

\* one iteration of the loop when the attempt raised
TagsAttemptRaised(tk, h) ==
  TagsNextAttempt(
    [tk EXCEPT !.attempts =
       Append(@, [raised |-> TRUE, parsed |-> <<>>, tags |-> <<>>,
                  diverse |-> FALSE])],
    h)

TagsVarsInit ==
  /\ recent_tag_patterns = <<>>
  /\ recent_full_tags = <<>>
  /\ tags_tasks = [k \in TagsTaskIds |-> IdleTagsTask]
  /\ tags_calls = 0

TagsStart(k, input_data) ==
  /\ tags_tasks[k].pc \in {"idle", "done", "raised"}
  /\ tags_calls < MaxTagsCalls
  /\ tags_calls' = tags_calls + 1
  /\ tags_tasks' = [tags_tasks EXCEPT ![k] =
        [IdleTagsTask EXCEPT !.pc = "awaiting", !.input_data = input_data]]
  /\ UNCHANGED <<recent_tag_patterns, recent_full_tags, nottags>>

TagsResponse(k, parsed) ==
  /\ tags_tasks[k].pc = "awaiting"
  /\ LET r == TagsAttempt(tags_tasks[k], TagHistories, parsed) IN
     /\ tags_tasks' = [tags_tasks EXCEPT ![k] = r.task]
     /\ recent_tag_patterns' = r.histories.patterns
     /\ recent_full_tags' = r.histories.fulls
  /\ UNCHANGED <<tags_calls, nottags>>

TagsException(k) ==
  /\ tags_tasks[k].pc = "awaiting"
  /\ LET r == TagsAttemptRaised(tags_tasks[k], TagHistories) IN
     /\ tags_tasks' = [tags_tasks EXCEPT ![k] = r.task]
     /\ recent_tag_patterns' = r.histories.patterns
     /\ recent_full_tags' = r.histories.fulls
  /\ UNCHANGED <<tags_calls, nottags>>

TagsNext ==
  \/ \E k \in TagsTaskIds, input_data \in TagsRequests : TagsStart(k, input_data)
  \/ \E k \in TagsTaskIds, parsed \in ParsedTags : TagsResponse(k, parsed)
  \/ \E k \in TagsTaskIds : TagsException(k)

(***************************************************************************)
(* generate_optimized_content and generate_content.  The try block of      *)
(* generate_optimized_content runs the four generation steps and builds    *)
(* the GeneratedContent; its except clause calls generate_content, whose   *)
(* try block calls generate_optimized_content again and whose except       *)
(* clause makes the single-shot request.  `depth` counts the nested calls  *)
(* of generate_optimized_content; the interpreter ends the nesting with a  *)
(* RecursionError at RecursionLimit.                                       *)
(***************************************************************************)
RecursionLimit == 4
MaxGenTasks == 1
MaxGenCalls == 4
GenTaskIds == 1..MaxGenTasks

IdleGenTask ==
  [pc |-> "idle", has_image |-> FALSE, depth |-> 0, optimized_runs |-> 0,
   single_shots |-> 0, content |-> NoContent, via |-> "none"]

\* the try block of the innermost generate_optimized_content raised: its
\* except clause calls generate_content, which calls
\* generate_optimized_content, or fails to at the recursion limit and then
\* makes the single-shot request in its own except clause
OptimizedRaised(g) ==
  IF g.depth < RecursionLimit
  THEN [g EXCEPT !.depth = @ + 1, !.optimized_runs = @ + 1]
  ELSE [g EXCEPT !.pc = "single_shot", !.single_shots = @ + 1]

\* the single-shot request of the innermost generate_content failed: it
\* re-raises, the except clause of its caller generate_optimized_content
\* lets the exception pass, and the generate_content around that one, if
\* any, makes its own single-shot request
SingleShotRaised(g) ==
  IF g.depth > 1
  THEN [g EXCEPT !.depth = @ - 1, !.single_shots = @ + 1]
  ELSE [g EXCEPT !.pc = "raised", !.depth = 0]

\* a content is returned through every enclosing call
Returned_(g, content, via) ==
  [g EXCEPT !.pc = "done", !.depth = 0, !.content = content, !.via = via]

GenVarsInit ==
  /\ gen_tasks = [k \in GenTaskIds |-> IdleGenTask]
  /\ gen_calls = 0

\* has_image: the caller passed an image_base64
GenStart(k, has_image) ==
  /\ gen_tasks[k].pc \in {"idle", "done", "raised"}
  /\ gen_calls < MaxGenCalls
  /\ gen_calls' = gen_calls + 1
  /\ gen_tasks' = [gen_tasks EXCEPT ![k] =
       [IdleGenTask EXCEPT !.pc = "optimized", !.has_image = has_image,
                           !.depth = 1, !.optimized_runs = 1]]
  /\ UNCHANGED notgen

GenOptimizedDone(k, content) ==
  /\ gen_tasks[k].pc = "optimized"
  /\ gen_tasks' = [gen_tasks EXCEPT ![k] = Returned_(@, content, "optimized")]
  /\ UNCHANGED <<gen_calls, notgen>>

GenOptimizedFailed(k) ==
  /\ gen_tasks[k].pc = "optimized"
  /\ gen_tasks' = [gen_tasks EXCEPT ![k] = OptimizedRaised(@)]
  /\ UNCHANGED <<gen_calls, notgen>>

GenSingleShotDone(k, content) ==
  /\ gen_tasks[k].pc = "single_shot"
  /\ gen_tasks' = [gen_tasks EXCEPT ![k] = Returned_(@, content, "single_shot")]
  /\ UNCHANGED <<gen_calls, notgen>>

GenSingleShotFailed(k) ==
  /\ gen_tasks[k].pc = "single_shot"
  /\ gen_tasks' = [gen_tasks EXCEPT ![k] = SingleShotRaised(@)]
  /\ UNCHANGED <<gen_calls, notgen>>

GenNext ==
  \/ \E k \in GenTaskIds, has_image \in BOOLEAN : GenStart(k, has_image)
  \/ \E k \in GenTaskIds, content \in GeneratedContents : GenOptimizedDone(k, content)
  \/ \E k \in GenTaskIds : GenOptimizedFailed(k)
  \/ \E k \in GenTaskIds, content \in GeneratedContents : GenSingleShotDone(k, content)
  \/ \E k \in GenTaskIds : GenSingleShotFailed(k)

(***************************************************************************)
(* The two trackers called on their own: a sequence of calls of            *)
(* _track_title_diversity, and of _track_tag_diversity, each call logged.  *)
(* A run records the same value again or changes to another one, a bounded *)
(* number of times.                                                        *)
(***************************************************************************)
MaxRecordings == 25
MaxChanges == 2
MaxTagRecordings == 17
MaxTagChanges == 1

Changes(log) == Cardinality({i \in 1..(Len(log) - 1) : log[i] # log[i + 1]})

RecordTitles == {<<>>, <<"Relaxing", "Piano">>, <<"Calm", "Night">>}

RecordTagLists ==
  {<<>>, <<<<" ">>>>, <<<<"m", "u", "s", "i", "c">>, <<"p", "i", "a", "n", "o">>>>, <<<<"R", "a", "i", "n", " ", "S", "o", "u", "n", "d", "s">>, <<" ">>>>}

LogVarsInit ==
  /\ title_log = <<>>
  /\ tags_log = <<>>

RecordTitle(title) ==
  /\ Len(title_log) < MaxRecordings
  /\ Changes(Append(title_log, title)) <= MaxChanges
  /\ title_log' = Append(title_log, title)
  /\ recent_title_starts' = _track_title_diversity(recent_title_starts, title)
  /\ UNCHANGED <<title_tasks, title_calls, tags_log, tagsvars, nottrackers>>

RecordTitleNext == \E title \in RecordTitles : RecordTitle(title)

RecordTags(tags) ==
  /\ Len(tags_log) < MaxTagRecordings
  /\ Changes(Append(tags_log, tags)) <= MaxTagChanges
  /\ tags_log' = Append(tags_log, tags)
  /\ LET h == _track_tag_diversity(recent_tag_patterns, recent_full_tags, tags) IN
     /\ recent_tag_patterns' = h.patterns
     /\ recent_full_tags' = h.fulls
  /\ UNCHANGED <<tags_tasks, tags_calls, title_log, titlevars, nottrackers>>

RecordTagsNext == \E tags \in RecordTagLists : RecordTags(tags)

(***************************************************************************)
(* _clean_and_validate_tags on its own: a tag list of at most MaxListLen   *)
(* tags of at most MaxTagLen characters is cleaned, and the result is      *)
(* cleaned again.                                                          *)
(***************************************************************************)
MaxTagLen == 3
MaxListLen == 2
TagChars == {"K", "x", "4", "!", " "}

Strings(n) == UNION {[1..m -> TagChars] : m \in 0..n}
CleanInputs == UNION {[1..m -> Strings(MaxTagLen)] : m \in 0..MaxListLen}

NotCleaned == <<<<"<", "n", "o", "t", " ", "c", "l", "e", "a", "n", "e", "d", ">">>>>

CleanVarsInit ==
  /\ clean_input = <<>>
  /\ clean_once = NotCleaned
  /\ clean_twice = NotCleaned

CleanDrawn ==
  /\ clean_input \in CleanInputs
  /\ clean_once = NotCleaned
  /\ clean_twice = NotCleaned

Clean ==
  /\ clean_once = NotCleaned
  /\ clean_once' = _clean_and_validate_tags(clean_input)
  /\ UNCHANGED <<clean_input, clean_twice, notclean>>

CleanAgain ==
  /\ clean_once # NotCleaned
  /\ clean_twice = NotCleaned
  /\ clean_twice' = _clean_and_validate_tags(clean_once)
  /\ UNCHANGED <<clean_input, clean_once, notclean>>

CleanNext == Clean \/ CleanAgain

(***************************************************************************)
(* DatabaseManager.save_content_package (database_service.py).  The call   *)
(* builds the record, awaits the Google Sheets sink, then awaits the        *)
(* Airtable sink; each sink catches what goes wrong inside it and returns  *)
(* False.  The whole body is in one try block.                             *)
(***************************************************************************)
MaxSaveTasks == 1
MaxSaveCalls == 6
SaveTaskIds == 1..MaxSaveTasks

\* package.youtube_data: None, or a YouTubeVideoData whose video_url is set,
\* or one whose video_url is None
YoutubeData == {"none", "with_url", "without_url"}

\* DatabaseRecord.video_url is a str: _package_to_record raises for a
\* youtube_data whose video_url is None
_package_to_record_raises(youtube_data) == youtube_data = "without_url"

\* what a sink does: it writes the record, or it has no destination and
\* returns False, or an exception inside it is caught and it returns False
SinkOutcomes == {"saved", "no_destination", "exception_caught"}
sink_success(outcome) == outcome = "saved"

IdleSaveTask ==
  [pc |-> "idle", youtube_data |-> "none", google |-> "not_attempted",
   airtable |-> "not_attempted", success |-> FALSE]

SaveVarsInit ==
  /\ save_tasks = [k \in SaveTaskIds |-> IdleSaveTask]
  /\ save_calls = 0

\* to the first await, or to the except clause when the record cannot be
\* built
SaveStart(k, youtube_data) ==
  /\ save_tasks[k].pc \in {"idle", "done"}
  /\ save_calls < MaxSaveCalls
  /\ save_calls' = save_calls + 1
  /\ save_tasks' = [save_tasks EXCEPT ![k] =
       IF _package_to_record_raises(youtube_data)
       THEN [IdleSaveTask EXCEPT !.pc = "done", !.youtube_data = youtube_data,
                                 !.success = FALSE]
       ELSE [IdleSaveTask EXCEPT !.pc = "google", !.youtube_data = youtube_data]]
  /\ UNCHANGED notsave

\* _save_to_google_sheets returned; the Airtable sink is awaited next
GoogleSinkDone(k, outcome) ==
  /\ save_tasks[k].pc = "google"
  /\ save_tasks' = [save_tasks EXCEPT ![k] =
       [@ EXCEPT !.pc = "airtable", !.google = outcome]]
  /\ UNCHANGED <<save_calls, notsave>>

\* _save_to_airtable returned
AirtableSinkDone(k, outcome) ==
  /\ save_tasks[k].pc = "airtable"
  /\ save_tasks' = [save_tasks EXCEPT ![k] =
       [@ EXCEPT !.pc = "done", !.airtable = outcome,
                 !.success = save_content_package(
                               sink_success(save_tasks[k].google),
                               sink_success(outcome))]]
  /\ UNCHANGED <<save_calls, notsave>>

SaveNext ==
  \/ \E k \in SaveTaskIds, youtube_data \in YoutubeData : SaveStart(k, youtube_data)
  \/ \E k \in SaveTaskIds, outcome \in SinkOutcomes : GoogleSinkDone(k, outcome)
  \/ \E k \in SaveTaskIds, outcome \in SinkOutcomes : AirtableSinkDone(k, outcome)


(***************************************************************************)
(* DatabaseManager.update_content_package: the package's record is written *)
(* to the worksheet (matched on the title column) and to the table         *)
(* (matched on the package id).  A row is [stt, title, payload]; payload   *)
(* stands for the columns B, D, E, F, G.  A table record is                *)
(* [package_id, title, payload].                                           *)
(***************************************************************************)
MaxUpdCalls == 2
MaxRows == 3
PackageIds == {1, 2}
VideoTitles == {"t1", "t2"}
Payloads == {"a", "b"}
UpdRecords == [package_id : PackageIds, video_title : VideoTitles, payload : Payloads]
UpdOutcomes == {"ok", "no_destination", "exception"}

\* the index of the first element of s satisfying the key, 0 when there is none
RECURSIVE first_match(_, _, _, _)
first_match(s, field, key, i) ==
  IF i > Len(s) THEN 0
  ELSE IF s[i][field] = key THEN i
  ELSE first_match(s, field, key, i + 1)

RECURSIVE max_stt(_, _)
max_stt(rows, i) ==
  IF i > Len(rows) THEN 0
  ELSE LET rest == max_stt(rows, i + 1)
       IN IF rows[i].stt > rest THEN rows[i].stt ELSE rest

_calculate_next_stt_from_values(rows) == max_stt(rows, 1) + 1

\* the new row goes below the last one, with the next sequence number
_save_to_google_sheets(rows, record) ==
  Append(rows, [stt |-> _calculate_next_stt_from_values(rows),
                title |-> record.video_title, payload |-> record.payload])

\* columns B to G of the first row holding the title are rewritten, column A
\* is kept; without such a row the record is saved as a new row
_update_in_google_sheets(rows, record) ==
  LET i == first_match(rows, "title", record.video_title, 1)
  IN IF i > 0
     THEN [rows EXCEPT ![i] = [stt |-> rows[i].stt,
                               title |-> record.video_title,
                               payload |-> record.payload]]
     ELSE _save_to_google_sheets(rows, record)

\* variant: a package without a record in the table is left without one
_update_in_airtable_NoInsert(records, record) ==
  LET i == first_match(records, "package_id", record.package_id, 1)
  IN IF i > 0
     THEN [records EXCEPT ![i] = [package_id |-> record.package_id,
                                  title |-> record.video_title,
                                  payload |-> record.payload]]
     ELSE records

\* every field of the first record of the package is rewritten; without such
\* a record one is inserted
_update_in_airtable(records, record) ==
  LET i == first_match(records, "package_id", record.package_id, 1)
      airtable_data == [package_id |-> record.package_id,
                        title |-> record.video_title,
                        payload |-> record.payload]
  IN IF i > 0
     THEN [records EXCEPT ![i] = airtable_data]
     ELSE Append(records, airtable_data)

IdleUpdTask ==
  [pc |-> "idle", record |-> [package_id |-> 1, video_title |-> "t1", payload |-> "a"],
   sheet0 |-> <<>>, table0 |-> <<>>,
   google_success |-> FALSE, airtable_success |-> FALSE, result |-> FALSE]

UpdVarsInit ==
  /\ sheet = <<>>
  /\ table = <<>>
  /\ upd_task = IdleUpdTask
  /\ upd_calls = 0

\* update_content_package up to the first await: the record is built
UpdateStart(record) ==
  /\ upd_task.pc \in {"idle", "done"}
  /\ upd_calls < MaxUpdCalls
  /\ Len(sheet) < MaxRows /\ Len(table) < MaxRows
  /\ upd_calls' = upd_calls + 1
  /\ upd_task' = [IdleUpdTask EXCEPT !.pc = "google", !.record = record,
                                     !.sheet0 = sheet, !.table0 = table]
  /\ UNCHANGED <<sheet, table>>
  /\ UNCHANGED notupd

\* _update_in_google_sheets returns: no worksheet gives False, an exception
\* of the API is caught and gives False
UpdateInGoogleSheets(outcome) ==
  /\ upd_task.pc = "google"
  /\ sheet' = IF outcome = "ok" THEN _update_in_google_sheets(sheet, upd_task.record)
              ELSE sheet
  /\ upd_task' = [upd_task EXCEPT !.pc = "airtable", !.google_success = (outcome = "ok")]
  /\ UNCHANGED <<table, upd_calls>>
  /\ UNCHANGED notupd

\* _update_in_airtable returns, then update_content_package returns
UpdateInAirtable(outcome) ==
  /\ upd_task.pc = "airtable"
  /\ table' = IF outcome = "ok" THEN _update_in_airtable(table, upd_task.record)
              ELSE table
  /\ upd_task' = [upd_task EXCEPT !.pc = "done", !.airtable_success = (outcome = "ok"),
                                  !.result = (upd_task.google_success \/ outcome = "ok")]
  /\ UNCHANGED <<sheet, upd_calls>>
  /\ UNCHANGED notupd

UpdNext ==
  \/ \E record \in UpdRecords : UpdateStart(record)
  \/ \E outcome \in UpdOutcomes : UpdateInGoogleSheets(outcome)
  \/ \E outcome \in UpdOutcomes : UpdateInAirtable(outcome)


(***************************************************************************)
(* ChannelManager with its configuration file.  The registry is the dict   *)
(* self.channels as a sequence of [key, config] in insertion order (the    *)
(* order decides which spreadsheet id is written as the shared one).  A    *)
(* config holds the fields of ChannelConfig that are written to the file,  *)
(* read by enrich_input_data or returned by get_channel_database;          *)
(* google_sheet_name and content_topics are written and read back like     *)
(* google_sheet_gid and are left out, created_by, created_at and is_active *)
(* are not written.  A sheet URL is modelled by what the two parsers read  *)
(* from it: [spreadsheet, gid].                                            *)
(***************************************************************************)
MaxChanCalls == 3
settings_google_sheets_id == "your-google-sheets-id"
default_airtable_table_name == "Content"
NoFile == [exists |-> FALSE]
NoUrl == [spreadsheet |-> None, gid |-> None]
RegistryIds == {"default_channel", "c1"}
UnknownId == "c9"

DefaultConfig ==
  [channel_id |-> "default_channel", channel_name |-> "Demo", channel_description |-> "dDemo",
   content_style |-> "edu", target_audience |-> "vn",
   google_sheets_id |-> settings_google_sheets_id, google_sheet_gid |-> None,
   google_sheet_url |-> NoUrl, airtable_base_id |-> None]

\* the configs passed to add_channel and update_channel
ConfigShapes ==
  { DefaultConfig,
    [DefaultConfig EXCEPT !.channel_name = "A", !.channel_description = "dA",
                          !.content_style = None, !.target_audience = None,
                          !.google_sheets_id = None],
    [DefaultConfig EXCEPT !.channel_name = "B", !.channel_description = "dB",
                          !.content_style = "calm", !.target_audience = None,
                          !.google_sheets_id = "own", !.google_sheet_gid = "7",
                          !.airtable_base_id = "base"] }
ChannelConfigs ==
  {[c EXCEPT !.channel_id = id] : c \in ConfigShapes, id \in RegistryIds}

RECURSIVE key_index(_, _, _)
key_index(reg, key, i) ==
  IF i > Len(reg) THEN 0
  ELSE IF reg[i].key = key THEN i
  ELSE key_index(reg, key, i + 1)

\* self.channels[key] = config
dict_set(reg, key, config) ==
  LET i == key_index(reg, key, 1)
  IN IF i > 0 THEN [reg EXCEPT ![i].config = config]
     ELSE Append(reg, [key |-> key, config |-> config])

\* del self.channels[key]
dict_del(reg, key) ==
  LET i == key_index(reg, key, 1)
  IN SubSeq(reg, 1, i - 1) \o SubSeq(reg, i + 1, Len(reg))

registry_get(reg, channel_id) ==
  LET i == key_index(reg, channel_id, 1)
  IN IF i > 0 THEN reg[i].config ELSE NoChannel

\* the channel records of _save_channels_config; spreadsheet_id is the id of
\* the first channel so far that has one
RECURSIVE channels_data(_, _, _)
channels_data(reg, i, spreadsheet_id) ==
  IF i > Len(reg) THEN <<>>
  ELSE LET channel == reg[i].config
           sid == IF spreadsheet_id = None /\ channel.google_sheets_id # None
                  THEN channel.google_sheets_id ELSE spreadsheet_id
           channel_data ==
             [channel_id |-> channel.channel_id,
              channel_name |-> channel.channel_name,
              channel_description |-> channel.channel_description,
              google_sheet_gid |-> channel.google_sheet_gid,
              content_style |-> channel.content_style,
              target_audience |-> channel.target_audience,
              google_sheet_url |->
                IF sid # None /\ channel.google_sheet_gid # None
                THEN [spreadsheet |-> sid, gid |-> channel.google_sheet_gid]
                ELSE NoUrl]
       IN <<channel_data>> \o channels_data(reg, i + 1, sid)

RECURSIVE first_sheets_id(_, _)
first_sheets_id(reg, i) ==
  IF i > Len(reg) THEN None
  ELSE IF reg[i].config.google_sheets_id # None THEN reg[i].config.google_sheets_id
  ELSE first_sheets_id(reg, i + 1)

\* the data _save_channels_config writes
saved_data(reg) ==
  LET spreadsheet_id == first_sheets_id(reg, 1)
  IN [exists |-> TRUE,
      spreadsheet_id |-> IF spreadsheet_id # None THEN spreadsheet_id
                         ELSE settings_google_sheets_id,
      channels |-> channels_data(reg, 1, None)]

_create_default_config(reg) == dict_set(reg, "default_channel", DefaultConfig)

RECURSIVE load_channels(_, _, _)
load_channels(data, i, reg) ==
  IF i > Len(data.channels) THEN reg
  ELSE LET channel_data == data.channels[i]
           gid == IF channel_data.google_sheet_url # NoUrl
                     /\ channel_data.google_sheet_gid = None
                  THEN channel_data.google_sheet_url.gid
                  ELSE channel_data.google_sheet_gid
           channel ==
             [channel_id |-> channel_data.channel_id,
              channel_name |-> channel_data.channel_name,
              channel_description |-> channel_data.channel_description,
              content_style |-> channel_data.content_style,
              target_audience |-> channel_data.target_audience,
              google_sheets_id |-> data.spreadsheet_id,
              google_sheet_gid |-> gid,
              google_sheet_url |-> channel_data.google_sheet_url,
              airtable_base_id |-> None]
       IN load_channels(data, i + 1, dict_set(reg, channel.channel_id, channel))

\* the channel_registry of a new ChannelManager
_load_channels_config(data) ==
  IF data = NoFile THEN _create_default_config(<<>>)
  ELSE load_channels(data, 1, <<>>)

get_channel_database(reg, channel_id) ==
  LET channel == registry_get(reg, channel_id)
  IN IF channel # NoChannel
     THEN [is_none |-> FALSE,
           channel_id |-> channel_id,
           google_sheets_id |-> channel.google_sheets_id,
           google_sheet_gid |-> channel.google_sheet_gid,
           google_sheet_url |-> channel.google_sheet_url,
           airtable_base_id |-> channel.airtable_base_id,
           airtable_table_name |-> default_airtable_table_name]
     ELSE NoChannel

\* the spreadsheet _get_google_sheet opens for the channel; None: no worksheet
_get_google_sheet(reg, channel_id) ==
  LET db_config == get_channel_database(reg, channel_id)
  IN IF db_config # NoChannel
     THEN IF db_config.google_sheet_url # NoUrl
          THEN db_config.google_sheet_url.spreadsheet
          ELSE db_config.google_sheets_id
     ELSE settings_google_sheets_id

\* the base of the client _get_airtable_client constructs for a channel that
\* has none cached; None: no client
_get_airtable_client(reg, channel_id) ==
  LET db_config == get_channel_database(reg, channel_id)
  IN IF db_config = NoChannel THEN None ELSE db_config.airtable_base_id

ContextInputs ==
  [channel_id : RegistryIds \cup {UnknownId, None},
   channel_name : {None, "typed"},
   channel_description : {None},
   additional_context : {None, "", "ctx"}]

\* the f-string of the two fields; an unset audience is printed as None
synthesized(channel) ==
  "Phong cach: " \o channel.content_style \o ". Doi tuong: " \o channel.target_audience

\* variant: the context is synthesized whether or not the channel has a style
enrich_with_context_AnyStyle(reg, input_data) ==
  LET channel == registry_get(reg, input_data.channel_id)
  IN IF channel # NoChannel
     THEN [input_data EXCEPT
             !.channel_name = channel.channel_name,
             !.channel_description = channel.channel_description,
             !.additional_context =
               IF input_data.additional_context \in {None, ""}
               THEN synthesized(channel)
               ELSE input_data.additional_context]
     ELSE input_data

\* ChannelManager.enrich_input_data with the synthesis of additional_context
enrich_with_context(reg, input_data) ==
  LET channel == registry_get(reg, input_data.channel_id)
  IN IF channel # NoChannel
     THEN [input_data EXCEPT
             !.channel_name = channel.channel_name,
             !.channel_description = channel.channel_description,
             !.additional_context =
               IF input_data.additional_context \in {None, ""}
                  /\ channel.content_style \notin {None, ""}
               THEN synthesized(channel)
               ELSE input_data.additional_context]
     ELSE input_data

IdleChanOp ==
  [op |-> "none", key |-> None, result |-> FALSE, written |-> FALSE,
   input |-> NoChannel, output |-> NoChannel]

ChanVarsInit ==
  /\ config_file = NoFile
  /\ channel_registry = _load_channels_config(NoFile)
  /\ chan_op = IdleChanOp
  /\ chan_calls = 0

ChanRoom == chan_calls < MaxChanCalls

\* _save_channels_config: the file is rewritten, or opening it for writing
\* fails and the error is logged
Written(reg, written) ==
  config_file' = IF written THEN saved_data(reg) ELSE config_file

AddChannel(channel_config, written) ==
  /\ ChanRoom
  /\ channel_registry' = dict_set(channel_registry, channel_config.channel_id, channel_config)
  /\ Written(channel_registry', written)
  /\ chan_op' = [IdleChanOp EXCEPT !.op = "add", !.key = channel_config.channel_id,
                                   !.result = TRUE, !.written = written]
  /\ chan_calls' = chan_calls + 1
  /\ UNCHANGED notchan

\* variant: update_channel stores the config under any channel id
UpdateChannel_Upsert(channel_id, channel_config, written) ==
  /\ ChanRoom
  /\ channel_registry' = dict_set(channel_registry, channel_id, channel_config)
  /\ Written(channel_registry', written)
  /\ chan_op' = [IdleChanOp EXCEPT !.op = "update", !.key = channel_id,
                                   !.result = TRUE, !.written = written]
  /\ chan_calls' = chan_calls + 1
  /\ UNCHANGED notchan

\* for an id that is not registered nothing is written, whatever the state of
\* the file system
UpdateChannel(channel_id, channel_config, written) ==
  /\ ChanRoom
  /\ IF key_index(channel_registry, channel_id, 1) > 0
     THEN /\ channel_registry' = dict_set(channel_registry, channel_id, channel_config)
          /\ Written(channel_registry', written)
          /\ chan_op' = [IdleChanOp EXCEPT !.op = "update", !.key = channel_id,
                                           !.result = TRUE, !.written = written]
     ELSE /\ written
          /\ chan_op' = [IdleChanOp EXCEPT !.op = "update", !.key = channel_id]
          /\ UNCHANGED <<channel_registry, config_file>>
  /\ chan_calls' = chan_calls + 1
  /\ UNCHANGED notchan

RemoveChannel(channel_id, written) ==
  /\ ChanRoom
  /\ IF key_index(channel_registry, channel_id, 1) > 0
     THEN /\ channel_registry' = dict_del(channel_registry, channel_id)
          /\ Written(channel_registry', written)
          /\ chan_op' = [IdleChanOp EXCEPT !.op = "remove", !.key = channel_id,
                                           !.result = TRUE, !.written = written]
     ELSE /\ written
          /\ chan_op' = [IdleChanOp EXCEPT !.op = "remove", !.key = channel_id]
          /\ UNCHANGED <<channel_registry, config_file>>
  /\ chan_calls' = chan_calls + 1
  /\ UNCHANGED notchan

\* a new process: ChannelManager() loads the file
Bootstrap ==
  /\ ChanRoom
  /\ channel_registry' = _load_channels_config(config_file)
  /\ chan_op' = [IdleChanOp EXCEPT !.op = "bootstrap"]
  /\ chan_calls' = chan_calls + 1
  /\ UNCHANGED config_file
  /\ UNCHANGED notchan

GetChannelDatabase(channel_id) ==
  /\ ChanRoom
  /\ chan_op' = [IdleChanOp EXCEPT !.op = "get_channel_database", !.key = channel_id,
                                   !.output = get_channel_database(channel_registry, channel_id)]
  /\ chan_calls' = chan_calls + 1
  /\ UNCHANGED <<channel_registry, config_file>>
  /\ UNCHANGED notchan

EnrichInputData(input_data) ==
  /\ ChanRoom
  /\ chan_op' = [IdleChanOp EXCEPT !.op = "enrich_input_data", !.key = input_data.channel_id,
                                   !.input = input_data,
                                   !.output = enrich_with_context(channel_registry, input_data)]
  /\ chan_calls' = chan_calls + 1
  /\ UNCHANGED <<channel_registry, config_file>>
  /\ UNCHANGED notchan

ChanNext ==
  \/ \E c \in ChannelConfigs, w \in BOOLEAN : AddChannel(c, w)
  \/ \E id \in RegistryIds \cup {UnknownId}, c \in ChannelConfigs, w \in BOOLEAN :
       UpdateChannel(id, c, w)
  \/ \E id \in RegistryIds \cup {UnknownId}, w \in BOOLEAN : RemoveChannel(id, w)
  \/ Bootstrap
  \/ \E id \in RegistryIds \cup {UnknownId} : GetChannelDatabase(id)
  \/ \E input_data \in ContextInputs : EnrichInputData(input_data)


(***************************************************************************)
(* WorkflowEngine.get_channel_statistics: one entry per channel id of a    *)
(* registered package, with the total and one counter for each of six      *)
(* status values; a status without a counter is counted in the total only. *)
(***************************************************************************)
CountedStatuses == {PENDING, PROCESSING, GENERATED, UPLOADED, PUBLISHED, FAILED}

PackagesOf(channel_id) == {id \in active_packages : packages[id].channel_id = channel_id}

StatusCount(channel_id, status_key) ==
  IF status_key \in CountedStatuses
  THEN Cardinality({id \in PackagesOf(channel_id) : packages[id].status = status_key})
  ELSE 0

get_channel_statistics ==
  [channel_id \in {packages[id].channel_id : id \in active_packages} |->
     [total |-> Cardinality(PackagesOf(channel_id)),
      pending |-> StatusCount(channel_id, PENDING),
      processing |-> StatusCount(channel_id, PROCESSING),
      generated |-> StatusCount(channel_id, GENERATED),
      uploaded |-> StatusCount(channel_id, UPLOADED),
      published |-> StatusCount(channel_id, PUBLISHED),
      failed |-> StatusCount(channel_id, FAILED)]]


(***************************************************************************)
(* AIContentGenerator.generate_content_variations: one coroutine of        *)
(* generate_optimized_content per input, all handed to asyncio.gather with *)
(* return_exceptions=True.  The coroutines run on one event loop and are   *)
(* suspended only at the collaborator calls, so each action below is one   *)
(* segment between two awaits.  They share the diversity histories; every  *)
(* call of _track_title_diversity and _track_tag_diversity is logged in    *)
(* title_log and tags_log in the order of the calls.  The segments of the  *)
(* attempts that end without recording only read the histories and are     *)
(* left out, as are the description and image prompt stages.               *)
(***************************************************************************)
MaxVariations == 2
MaxVarCalls == 1
MaxVarDepth == 1
\* one entry below the caps
PrefillTitles == max_diversity_history - 1
PrefillTags == max_tag_diversity_history - 1

VariationIds == 1..MaxVariations
VarTitles == {<<>>, <<"Relaxing", "Piano">>}
VarTagLists ==
  {<<<<" ">>>>, <<<<"R", "a", "i", "n", " ", "S", "o", "u", "n", "d", "s">>, <<"p", "i", "a", "n", "o">>>>}

NoVarContent == [variation |-> 0, via |-> "none", title |-> <<>>, tags |-> <<>>]
IdleVarTask ==
  [pc |-> "unused", depth |-> 0, seen |-> <<>>, title |-> <<>>, content |-> NoVarContent]

RECURSIVE TitleHistoryAfter(_, _)
TitleHistoryAfter(history, log) ==
  IF log = <<>> THEN history
  ELSE TitleHistoryAfter(_track_title_diversity(history, Head(log)), Tail(log))

RECURSIVE TagHistoriesAfter(_, _)
TagHistoriesAfter(h, log) ==
  IF log = <<>> THEN h
  ELSE TagHistoriesAfter(_track_tag_diversity(h.patterns, h.fulls, Head(log)), Tail(log))

\* the generator after no generation, or after a number of earlier ones
EarlierGenerations ==
  {[titles |-> <<>>, tags |-> <<>>],
   [titles |-> [i \in 1..PrefillTitles |-> <<"Calm", "Night">>],
    tags |-> [i \in 1..PrefillTags |-> <<<<"m", "u", "s", "i", "c">>>>]]}

PrefilledTrackers ==
  \E e \in EarlierGenerations :
    /\ title_log = e.titles
    /\ tags_log = e.tags
    /\ recent_title_starts = TitleHistoryAfter(<<>>, e.titles)
    /\ LET h == TagHistoriesAfter([patterns |-> <<>>, fulls |-> <<>>], e.tags) IN
       /\ recent_tag_patterns = h.patterns
       /\ recent_full_tags = h.fulls
    /\ title_tasks = [k \in TitleTaskIds |-> IdleTitleTask]
    /\ title_calls = 0
    /\ tags_tasks = [k \in TagsTaskIds |-> IdleTagsTask]
    /\ tags_calls = 0

VariationVarsInit ==
  /\ var_tasks = [k \in VariationIds |-> IdleVarTask]
  /\ var_call = [pc |-> "idle", n |-> 0, result |-> <<>>]
  /\ var_calls = 0

VarUnchanged == <<title_tasks, title_calls, tags_tasks, tags_calls>>

\* generate_content_variations up to the await of gather: n coroutines are
\* created; each runs to its first collaborator call, having read the title
\* history for the diversity instruction of its prompt
VarStart(n) ==
  /\ var_call.pc \in {"idle", "returned"}
  /\ var_calls < MaxVarCalls
  /\ var_calls' = var_calls + 1
  /\ var_call' = [pc |-> "gathering", n |-> n, result |-> <<>>]
  /\ var_tasks' = [k \in VariationIds |->
                     IF k <= n THEN [IdleVarTask EXCEPT !.pc = "title",
                                                        !.seen = recent_title_starts]
                     ELSE IdleVarTask]
  /\ UNCHANGED <<recent_title_starts, recent_tag_patterns, recent_full_tags,
                 title_log, tags_log, VarUnchanged>>
  /\ UNCHANGED notshared

\* variant: the word is appended to the list as it was when the coroutine
\* read it before its collaborator call
VarTitleRecorded_Stale(k, title) ==
  /\ var_tasks[k].pc = "title"
  /\ recent_title_starts' = _track_title_diversity(var_tasks[k].seen, title)
  /\ title_log' = Append(title_log, title)
  /\ var_tasks' = [var_tasks EXCEPT ![k].pc = "tags", ![k].title = title]
  /\ UNCHANGED <<recent_tag_patterns, recent_full_tags, tags_log, var_call, var_calls,
                 VarUnchanged>>
  /\ UNCHANGED notshared

\* the segment of _generate_title_and_thumbnail that ends its loop: the
\* title of the attempt, or the fallback title, is recorded and returned
VarTitleRecorded(k, title) ==
  /\ var_tasks[k].pc = "title"
  /\ recent_title_starts' = _track_title_diversity(recent_title_starts, title)
  /\ title_log' = Append(title_log, title)
  /\ var_tasks' = [var_tasks EXCEPT ![k].pc = "tags", ![k].title = title]
  /\ UNCHANGED <<recent_tag_patterns, recent_full_tags, tags_log, var_call, var_calls,
                 VarUnchanged>>
  /\ UNCHANGED notshared

\* the segment of _generate_tags that ends its loop: the tags are recorded;
\* generate_optimized_content builds the content and returns it
VarTagsRecorded(k, tags) ==
  /\ var_tasks[k].pc = "tags"
  /\ LET h == _track_tag_diversity(recent_tag_patterns, recent_full_tags, tags) IN
     /\ recent_tag_patterns' = h.patterns
     /\ recent_full_tags' = h.fulls
  /\ tags_log' = Append(tags_log, tags)
  /\ var_tasks' = [var_tasks EXCEPT ![k].pc = "done",
                     ![k].content = [variation |-> k, via |-> "optimized",
                                     title |-> var_tasks[k].title, tags |-> tags]]
  /\ UNCHANGED <<recent_title_starts, title_log, var_call, var_calls, VarUnchanged>>
  /\ UNCHANGED notshared

\* an exception in generate_optimized_content: generate_content is called,
\* which calls generate_optimized_content again; at the recursion limit the
\* innermost generate_content goes on to its single request
VarOptimizedFailed(k) ==
  /\ var_tasks[k].pc \in {"title", "tags"}
  /\ var_tasks' = [var_tasks EXCEPT ![k] =
        IF var_tasks[k].depth < MaxVarDepth
        THEN [@ EXCEPT !.pc = "title", !.depth = var_tasks[k].depth + 1,
                       !.seen = recent_title_starts]
        ELSE [@ EXCEPT !.pc = "single_shot"]]
  /\ UNCHANGED <<recent_title_starts, recent_tag_patterns, recent_full_tags,
                 title_log, tags_log, var_call, var_calls, VarUnchanged>>
  /\ UNCHANGED notshared

\* the single request of generate_content returns or raises; an exception
\* reaches the generate_content one level up, which makes its own request,
\* and from the outermost level it leaves the coroutine
VarSingleShot(k, ok) ==
  /\ var_tasks[k].pc = "single_shot"
  /\ var_tasks' = [var_tasks EXCEPT ![k] =
        IF ok
        THEN [@ EXCEPT !.pc = "done",
                       !.content = [variation |-> k, via |-> "single_shot",
                                    title |-> <<>>, tags |-> <<>>]]
        ELSE IF var_tasks[k].depth > 0
        THEN [@ EXCEPT !.depth = var_tasks[k].depth - 1]
        ELSE [@ EXCEPT !.pc = "raised"]]
  /\ UNCHANGED <<recent_title_starts, recent_tag_patterns, recent_full_tags,
                 title_log, tags_log, var_call, var_calls, VarUnchanged>>
  /\ UNCHANGED notshared

RECURSIVE successful_results(_, _, _)
successful_results(tasks_, i, n) ==
  IF i > n THEN <<>>
  ELSE (IF tasks_[i].pc = "done" THEN <<tasks_[i].content>> ELSE <<>>)
       \o successful_results(tasks_, i + 1, n)

\* variant: gather without return_exceptions, the first exception ends the
\* call with an empty result
VarGather_FirstException ==
  /\ var_call.pc = "gathering"
  /\ \/ \E k \in 1..var_call.n : var_tasks[k].pc = "raised"
     \/ \A k \in 1..var_call.n : var_tasks[k].pc = "done"
  /\ var_call' = [var_call EXCEPT !.pc = "returned",
                      !.result = IF \E k \in 1..var_call.n : var_tasks[k].pc = "raised"
                                 THEN <<>>
                                 ELSE successful_results(var_tasks, 1, var_call.n)]
  /\ UNCHANGED <<recent_title_starts, recent_tag_patterns, recent_full_tags,
                 title_log, tags_log, var_tasks, var_calls, VarUnchanged>>
  /\ UNCHANGED notshared

\* gather returns when every coroutine has returned or raised; the results
\* that are no exceptions are collected in the order of the inputs
VarGather ==
  /\ var_call.pc = "gathering"
  /\ \A k \in 1..var_call.n : var_tasks[k].pc \in {"done", "raised"}
  /\ var_call' = [var_call EXCEPT !.pc = "returned",
                      !.result = successful_results(var_tasks, 1, var_call.n)]
  /\ UNCHANGED <<recent_title_starts, recent_tag_patterns, recent_full_tags,
                 title_log, tags_log, var_tasks, var_calls, VarUnchanged>>
  /\ UNCHANGED notshared

VariationsNext ==
  \/ \E n \in 0..MaxVariations : VarStart(n)
  \/ \E k \in VariationIds, title \in VarTitles : VarTitleRecorded(k, title)
  \/ \E k \in VariationIds, tags \in VarTagLists : VarTagsRecorded(k, tags)
  \/ \E k \in VariationIds : VarOptimizedFailed(k)
  \/ \E k \in VariationIds, ok \in BOOLEAN : VarSingleShot(k, ok)
  \/ VarGather


(***************************************************************************)
(* ImageGenerator: the three calls that submit a task to a provider and    *)
(* then ask for its status, _generate_via_replicate, _generate_via_piapi   *)
(* and _generate_via_goapi.  Each iteration of the loop sleeps, requests   *)
(* the status and handles it; an iteration is one action.  The statuses    *)
(* are those the provider's API answers with; piapi may answer without a   *)
(* status, with the code 200 or with another code.                         *)
(***************************************************************************)
max_polls == 120
MaxPollCalls == 1
Providers == {"replicate", "piapi", "goapi"}

ProviderStatuses(provider) ==
  CASE provider = "replicate" -> {"starting", "succeeded", "failed"}
    [] provider = "piapi" -> {"pending", "completed", "failed", "none_code_200", "none_code_500"}
    [] provider = "goapi" -> {"processing", "completed", "failed"}

success_status(provider) == IF provider = "replicate" THEN "succeeded" ELSE "completed"

IdlePollTask ==
  [pc |-> "idle", provider |-> "replicate", polls |-> 0, last_status |-> "none",
   outcome |-> "none"]

PollVarsInit ==
  /\ poll_task = IdlePollTask
  /\ poll_calls = 0

\* the task is submitted; a refused submission ends the call
PollStart(provider, submitted) ==
  /\ poll_task.pc \in {"idle", "ended"}
  /\ poll_calls < MaxPollCalls
  /\ poll_calls' = poll_calls + 1
  /\ poll_task' = IF submitted
                  THEN [IdlePollTask EXCEPT !.pc = "polling", !.provider = provider]
                  ELSE [IdlePollTask EXCEPT !.pc = "ended", !.provider = provider,
                                            !.outcome = "error"]
  /\ UNCHANGED notpoll

\* variant: the loop has no last iteration
Poll_Unbounded(status, usable) ==
  /\ poll_task.pc = "polling"
  /\ poll_task.polls <= max_polls
  /\ status \in ProviderStatuses(poll_task.provider)
  /\ poll_task' =
       [poll_task EXCEPT
          !.polls = poll_task.polls + 1,
          !.last_status = status,
          !.pc = IF status \in {success_status(poll_task.provider), "failed", "none_code_500"}
                 THEN "ended" ELSE "polling",
          !.outcome =
             IF status = success_status(poll_task.provider)
             THEN (IF usable THEN "image" ELSE "no_image")
             ELSE IF status = "failed" THEN "failed"
             ELSE IF status = "none_code_500" THEN "error"
             ELSE "none"]
  /\ UNCHANGED poll_calls
  /\ UNCHANGED notpoll

\* one iteration: the status of the success ends the call with the image,
\* or without one when the answer holds no usable URL or the download
\* fails; failed ends it; any other status goes on to the next iteration,
\* and after the last iteration the timeout exception is raised and caught
Poll(status, usable) ==
  /\ poll_task.pc = "polling"
  /\ status \in ProviderStatuses(poll_task.provider)
  /\ poll_task' =
       [poll_task EXCEPT
          !.polls = poll_task.polls + 1,
          !.last_status = status,
          !.pc = IF status \in {success_status(poll_task.provider), "failed", "none_code_500"}
                    \/ poll_task.polls + 1 = max_polls
                 THEN "ended" ELSE "polling",
          !.outcome =
             IF status = success_status(poll_task.provider)
             THEN (IF usable THEN "image" ELSE "no_image")
             ELSE IF status = "failed" THEN "failed"
             ELSE IF status = "none_code_500" THEN "error"
             ELSE IF poll_task.polls + 1 = max_polls THEN "timeout"
             ELSE "none"]
  /\ UNCHANGED poll_calls
  /\ UNCHANGED notpoll

\* the status request raises: the exception is caught and the call ends
PollRaised ==
  /\ poll_task.pc = "polling"
  /\ poll_task' = [poll_task EXCEPT !.polls = poll_task.polls + 1,
                                    !.last_status = "none",
                                    !.pc = "ended", !.outcome = "error"]
  /\ UNCHANGED poll_calls
  /\ UNCHANGED notpoll

PollNext ==
  \/ \E provider \in Providers, submitted \in BOOLEAN : PollStart(provider, submitted)
  \/ \E status \in {"starting", "pending", "processing", "succeeded", "completed", "failed",
                    "none_code_200", "none_code_500"}, usable \in BOOLEAN :
       Poll(status, usable)
  \/ PollRaised


(***************************************************************************)
(* Parsing of the tags response: _parse_tags_response (ai_service.py       *)
(* 577-642).  A response is one of a few literal texts; json_loads,        *)
(* tags_object_search, array_search and clean_lines give what json.loads,  *)
(* the two re.search calls and the line cleaning of the source return for  *)
(* that text.  A JSON value is a record: type, items (of a list or the     *)
(* characters of a string), keys and vals (of an object).                  *)
(***************************************************************************)
MaxParseCalls == 2

JList(items) == [type |-> "list", items |-> items, keys |-> <<>>, vals |-> <<>>]
JStr(s) == [type |-> "str", items |-> <<s>>, keys |-> <<>>, vals |-> <<>>]
JInt == [type |-> "int", items |-> <<>>, keys |-> <<>>, vals |-> <<>>]
JNull == [type |-> "NoneType", items |-> <<>>, keys |-> <<>>, vals |-> <<>>]
JDict(k, v) == [type |-> "dict", items |-> <<>>, keys |-> <<k>>, vals |-> <<v>>]
JSONDecodeError == [type |-> "JSONDecodeError", items |-> <<>>, keys |-> <<>>, vals |-> <<>>]
NoMatch == [type |-> "no match", items |-> <<>>, keys |-> <<>>, vals |-> <<>>]

\* The texts: a JSON list, an empty JSON list, an object with a tags list,
\* with an empty tags list, with a tags string, with a list under another
\* key, without any list, a JSON number, JSON null, prose around an object
\* with tags, prose around an object whose tags list holds a blank, prose
\* around a JSON list, prose around a list of bare words, two dashed lines,
\* a heading line, the empty text.
TagsResponses ==
  {"list", "empty_list", "tags_object", "empty_tags_object", "string_tags_object",
   "other_key_object", "no_list_object", "number", "null", "embedded_object",
   "embedded_blank_object", "embedded_list", "embedded_bare_list", "lines",
   "heading", "empty"}

\* json.loads(tags_response): the value, or JSONDecodeError.
json_loads(tags_response) ==
  CASE tags_response = "list" -> JList(<<"music", "piano">>)
    [] tags_response = "empty_list" -> JList(<<>>)
    [] tags_response = "tags_object" -> JDict("tags", JList(<<"rain">>))
    [] tags_response = "empty_tags_object" -> JDict("tags", JList(<<>>))
    [] tags_response = "string_tags_object" -> JDict("tags", JStr("rain"))
    [] tags_response = "other_key_object" -> JDict("keywords", JList(<<"rain">>))
    [] tags_response = "no_list_object" -> JDict("count", JInt)
    [] tags_response = "number" -> JInt
    [] tags_response = "null" -> JNull
    [] OTHER -> JSONDecodeError

\* json.loads of the text matched by the pattern of an object with a
\* non-empty bracketed tags list; NoMatch when the pattern finds nothing.
tags_object_search(tags_response) ==
  CASE tags_response = "tags_object" -> JDict("tags", JList(<<"rain">>))
    [] tags_response = "embedded_object" -> JDict("tags", JList(<<"rain", "sleep">>))
    [] tags_response = "embedded_blank_object" -> JDict("tags", JList(<<>>))
    [] OTHER -> NoMatch

\* json.loads of the first non-empty bracketed group; NoMatch when there is
\* none, JSONDecodeError when the group is not JSON.
array_search(tags_response) ==
  CASE tags_response = "list" -> JList(<<"music", "piano">>)
    [] tags_response = "tags_object" -> JList(<<"rain">>)
    [] tags_response = "other_key_object" -> JList(<<"rain">>)
    [] tags_response = "embedded_object" -> JList(<<"rain", "sleep">>)
    [] tags_response = "embedded_blank_object" -> JList(<<>>)
    [] tags_response = "embedded_list" -> JList(<<"calm", "night">>)
    [] tags_response = "embedded_bare_list" -> JSONDecodeError
    [] OTHER -> NoMatch

\* The lines of the text after the cleaning of method 4, one entry per line
\* that is not blank and does not start with # or *.
clean_lines(tags_response) ==
  CASE tags_response = "list" -> <<"musicpiano">>
    [] tags_response = "empty_list" -> <<"">>
    [] tags_response = "tags_object" -> <<"tagsrain">>
    [] tags_response = "empty_tags_object" -> <<"tags">>
    [] tags_response = "string_tags_object" -> <<"tagsrain">>
    [] tags_response = "other_key_object" -> <<"keywordsrain">>
    [] tags_response = "no_list_object" -> <<"count3">>
    [] tags_response = "number" -> <<"42">>
    [] tags_response = "null" -> <<"null">>
    [] tags_response = "embedded_object" -> <<"Heretagsrainsleepenjoy">>
    [] tags_response = "embedded_blank_object" -> <<"Heretagsenjoy">>
    [] tags_response = "embedded_list" -> <<"Tagscalmnight">>
    [] tags_response = "embedded_bare_list" -> <<"Tagscalmnight">>
    [] tags_response = "lines" -> <<"rainsounds", "sleep">>
    [] OTHER -> <<>>

\* len(clean_line) of the cleaned lines above.
ShortLines == {"", "42"}

ParseReturned(value) == [raised |-> "", value |-> value]
ParseRaised(exception) == [raised |-> exception, value |-> NoMatch]

\* Method 4: the cleaned lines longer than two characters, at most 15.
split_lines(tags_response) ==
  LET tags == SelectSeq(clean_lines(tags_response), LAMBDA l : l \notin ShortLines)
  IN  SubSeq(tags, 1, Min(Len(tags), 15))

\* Method 3, then method 4.
parse_array(tags_response) ==
  LET array == array_search(tags_response)
  IN  IF array.type \notin {"no match", "JSONDecodeError"}
      THEN ParseReturned(array)
      ELSE ParseReturned(JList(split_lines(tags_response)))

\* Method 2, then the rest.
parse_tags_object(tags_response) ==
  LET object == tags_object_search(tags_response)
  IN  IF object.type = "dict"
      THEN ParseReturned(object.vals[1])
      ELSE parse_array(tags_response)

\* The first list among the values of an object; NoMatch without one.
first_list_value(tags_data) ==
  IF \E i \in 1..Len(tags_data.vals) : tags_data.vals[i].type = "list"
  THEN tags_data.vals[CHOOSE i \in 1..Len(tags_data.vals) :
                        /\ tags_data.vals[i].type = "list"
                        /\ \A j \in 1..(i - 1) : tags_data.vals[j].type # "list"]
  ELSE NoMatch

\* _parse_tags_response: method 1 returns a list as it is and the tags entry
\* of an object as it is; the values of an object are searched for a list;
\* any other JSON value has no values() and AttributeError leaves the
\* function, since only JSONDecodeError is caught.
_parse_tags_response(tags_response) ==
  LET tags_data == json_loads(tags_response)
  IN  CASE tags_data.type = "JSONDecodeError" -> parse_tags_object(tags_response)
        [] tags_data.type = "list" -> ParseReturned(tags_data)
        [] tags_data.type = "dict" /\ \E i \in 1..Len(tags_data.keys) : tags_data.keys[i] = "tags" ->
             ParseReturned(tags_data.vals[CHOOSE i \in 1..Len(tags_data.keys) : tags_data.keys[i] = "tags"])
        [] tags_data.type = "dict" ->
             IF first_list_value(tags_data).type = "list"
             THEN ParseReturned(first_list_value(tags_data))
             ELSE parse_tags_object(tags_response)
        [] OTHER -> ParseRaised("AttributeError")

ParseVarsInit == parse_log = <<>>

ParseTags(tags_response) ==
  /\ Len(parse_log) < MaxParseCalls
  /\ parse_log' = Append(parse_log, [response |-> tags_response,
                                     result |-> _parse_tags_response(tags_response)])
  /\ UNCHANGED notparse

ParseNext == \E tags_response \in TagsResponses : ParseTags(tags_response)


(***************************************************************************)
(* The sinks a save uses: DatabaseManager._get_airtable_client with its    *)
(* cache (database_service.py 337-372) and _get_google_sheet (374-405),    *)
(* interleaved with add_channel and update_channel.                        *)
(***************************************************************************)
MaxSinkSaves == 2

NoClient == [handle |-> 0, base_id |-> None, table_name |-> None]

\* the configs given to add_channel and update_channel here: without a base
\* and with two different bases
ClientConfigShapes ==
  {c \in ConfigShapes : c.channel_name # "Demo"} \cup
  {[c EXCEPT !.google_sheets_id = "own2", !.airtable_base_id = "base2"] :
     c \in {c \in ConfigShapes : c.airtable_base_id # None}}
ClientConfigs == {[c EXCEPT !.channel_id = id] : c \in ClientConfigShapes, id \in RegistryIds}

ClientVarsInit ==
  /\ airtable_clients = <<>>
  /\ clients_created = 0
  /\ sink_log = <<>>

\* variant: the cache is not consulted
cached_or_new_NoCache(clients, count, reg, channel_id, constructed) ==
  IF _get_airtable_client(reg, channel_id) = None \/ ~constructed THEN NoClient
  ELSE [handle |-> count + 1,
        base_id |-> _get_airtable_client(reg, channel_id),
        table_name |-> get_channel_database(reg, channel_id).airtable_table_name]

\* the client _get_airtable_client returns: the cached one, or a new one for
\* the base of the channel, cached; None without a base or when the
\* constructor raises
cached_or_new(clients, count, reg, channel_id, constructed) ==
  IF channel_id \in DOMAIN clients THEN clients[channel_id]
  ELSE IF _get_airtable_client(reg, channel_id) = None \/ ~constructed THEN NoClient
  ELSE [handle |-> count + 1,
        base_id |-> _get_airtable_client(reg, channel_id),
        table_name |-> get_channel_database(reg, channel_id).airtable_table_name]

\* One save for a package of the channel: both sinks are looked up.
SaveToSinks(channel_id, constructed) ==
  LET client == cached_or_new(airtable_clients, clients_created, channel_registry,
                              channel_id, constructed)
      is_new == client # NoClient /\ channel_id \notin DOMAIN airtable_clients
  IN  /\ Len(sink_log) < MaxSinkSaves
      /\ airtable_clients' =
           IF is_new
           THEN [id \in DOMAIN airtable_clients \cup {channel_id} |->
                   IF id = channel_id THEN client ELSE airtable_clients[id]]
           ELSE airtable_clients
      /\ clients_created' = IF is_new THEN clients_created + 1 ELSE clients_created
      /\ sink_log' = Append(sink_log,
           [channel_id |-> channel_id, client |-> client, created |-> is_new,
            sheet |-> _get_google_sheet(channel_registry, channel_id),
            config |-> get_channel_database(channel_registry, channel_id)])
      /\ UNCHANGED notclient

ClientsNext ==
  \/ \E c \in ClientConfigs : AddChannel(c, TRUE)
  \/ \E c \in ClientConfigs : UpdateChannel(c.channel_id, c, TRUE)
  \/ \E id \in RegistryIds \cup {UnknownId}, constructed \in BOOLEAN : SaveToSinks(id, constructed)


(***************************************************************************)
(* The record of a package: DatabaseManager._package_to_record             *)
(* (database_service.py 453-493).  save_content_package builds it from the *)
(* package as it is when the persistence stage begins, before the sinks    *)
(* are awaited.                                                            *)
(***************************************************************************)
_package_to_record(package) ==
  [package_id |-> package.id,
   channel_id |-> package.channel_id,
   video_title |-> IF package.generated_content # NoContent
                   THEN package.generated_content.title ELSE "No Title",
   status |-> package.status]

(***************************************************************************)
(* Specifications.                                                         *)
(***************************************************************************)
Init == WfVarsInit /\ TitleVarsInit /\ TagsVarsInit /\ GenVarsInit /\ LogVarsInit /\ CleanVarsInit /\ SaveVarsInit /\ UpdVarsInit /\ ChanVarsInit /\ VariationVarsInit /\ PollVarsInit /\ ParseVarsInit /\ ClientVarsInit
Next == WfNext
Spec == Init /\ [][Next]_vars

(***************************************************************************)
(* The sweep on its own: a registry of packages in any status of the enum  *)
(* (the engine itself assigns PENDING, GENERATING_CONTENT, GENERATED and   *)
(* FAILED only), last updated at the start of an hour or a second later,   *)
(* one hour before the clock's first reading; the clock advances and the   *)
(* sweep is called.                                                        *)
(***************************************************************************)
MaxSweepPkgs == 2
UpdatedAts == {0, 1}

SweepPackage(id, status, updated_at) ==
  [NewPackage(id, RegId,
              [channel_id |-> RegId, channel_name |-> "Demo Channel",
               channel_description |-> "Kenh demo"], updated_at)
     EXCEPT !.status = status, !.status_history = <<status>>]

SweepInit ==
  /\ channels = (RegId :> DefaultChannelConfig)
  /\ \E status \in [1..MaxSweepPkgs -> ContentStatus],
        updated_at \in [1..MaxSweepPkgs -> UpdatedAts] :
       packages = [id \in 1..MaxSweepPkgs |->
                     SweepPackage(id, status[id], updated_at[id])]
  /\ active_packages = 1..MaxSweepPkgs
  /\ nextId = MaxSweepPkgs + 1
  /\ now = SecondsPerHour
  /\ ticks = 0
  /\ tasks = [t \in TaskIds \cup RunIds |-> IdleTask]
  /\ collab_calls = {}
  /\ created = NotCreated
  /\ swept = NotSwept
  /\ TitleVarsInit
  /\ TagsVarsInit
  /\ GenVarsInit
  /\ LogVarsInit
  /\ CleanVarsInit
  /\ SaveVarsInit
  /\ UpdVarsInit
  /\ ChanVarsInit
  /\ VariationVarsInit
  /\ PollVarsInit
  /\ ParseVarsInit
  /\ ClientVarsInit

SweepNext ==
  \/ \E max_age_hours \in MaxAgeHours : Sweep(max_age_hours)
  \/ \E d \in TickSteps : Tick(d)

SpecSweep == SweepInit /\ [][SweepNext]_vars

\* single runs while the clock advances
ClockedNext ==
  \/ \E t \in TaskIds, input_data \in InputData : StartRun(t, input_data)
  \/ \E t \in TaskIds, content \in GeneratedContents : ContentDone(t, content)
  \/ \E t \in TaskIds : ContentFailed(t)
  \/ \E t \in TaskIds, result \in ProviderResults : ImagesDone(t, result)
  \/ \E t \in TaskIds, g \in BOOLEAN, a \in BOOLEAN : SaveDone(t, g, a)
  \/ \E t \in TaskIds : SaveFailed(t)
  \/ Tick(1)

SpecClocked == Init /\ [][ClockedNext]_vars

SpecTitle == Init /\ [][TitleNext]_vars

SpecTags == Init /\ [][TagsNext]_vars

SpecGenerate == Init /\ [][GenNext]_vars

SpecTitleHistory == Init /\ [][RecordTitleNext]_vars

SpecTagHistory == Init /\ [][RecordTagsNext]_vars

CleanInit == WfVarsInit /\ TitleVarsInit /\ TagsVarsInit /\ GenVarsInit /\ LogVarsInit /\ CleanDrawn /\ SaveVarsInit /\ UpdVarsInit /\ ChanVarsInit /\ VariationVarsInit /\ PollVarsInit /\ ParseVarsInit /\ ClientVarsInit
SpecClean == CleanInit /\ [][CleanNext]_vars

SpecSave == Init /\ [][SaveNext]_vars
SpecUpdate == Init /\ [][UpdNext]_vars
SpecChannels == Init /\ [][ChanNext]_vars
VariationsInit == WfVarsInit /\ PrefilledTrackers /\ GenVarsInit /\ CleanVarsInit /\ SaveVarsInit /\ UpdVarsInit /\ ChanVarsInit /\ VariationVarsInit /\ PollVarsInit /\ ParseVarsInit /\ ClientVarsInit
SpecVariations == VariationsInit /\ [][VariationsNext]_vars
SpecPoll == Init /\ [][PollNext]_vars
SpecParse == Init /\ [][ParseNext]_vars
SpecClients == Init /\ [][ClientsNext]_vars

\* Concurrent runs interleaved with sweeps of max_age 0 and clock steps of
\* one second.
ConcurrentInputs ==
  {input_data \in InputData :
     /\ input_data.channel_id = NoId
     /\ input_data.channel_description = "Test Description"}
ConcurrentNext ==
  \/ \E t \in RunIds, input_data \in ConcurrentInputs : StartRun(t, input_data)
  \/ \E t \in RunIds, content \in GeneratedContents : ContentDone(t, content)
  \/ \E t \in RunIds : ContentFailed(t)
  \/ \E t \in RunIds, result \in ProviderResults : ImagesDone(t, result)
  \/ \E t \in RunIds : SaveDone(t, TRUE, TRUE)
  \/ \E t \in RunIds : SaveFailed(t)
  \/ Sweep(0)
  \/ Tick(1)
SpecConcurrent == Init /\ [][ConcurrentNext]_vars

\* Every awaited collaborator call eventually returns or raises: the event
\* loop resumes a run whose await has completed.
CollaboratorEnds ==
  \E t \in TaskIds :
    \/ \E content \in GeneratedContents : ContentDone(t, content)
    \/ ContentFailed(t)
    \/ \E result \in ProviderResults : ImagesDone(t, result)
    \/ \E g \in BOOLEAN, a \in BOOLEAN : SaveDone(t, g, a)
    \/ SaveFailed(t)
\* single runs under that scheduling
LiveNext ==
  \/ \E t \in TaskIds, input_data \in InputData : StartRun(t, input_data)
  \/ CollaboratorEnds
SpecLive == Init /\ [][LiveNext]_vars /\ WF_vars(CollaboratorEnds)

\* both orchestrators side by side, sharing a budget of calls
MaxOrchCalls == 2
OrchRoom == title_calls + tags_calls < MaxOrchCalls
OrchNext ==
  \/ \E k \in TitleTaskIds, input_data \in TitleRequests :
       OrchRoom /\ TitleStart(k, input_data)
  \/ \E k \in TitleTaskIds, title \in ParsedTitles : TitleResponse(k, title)
  \/ \E k \in TitleTaskIds : TitleException(k)
  \/ \E k \in TagsTaskIds, input_data \in TagsRequests :
       OrchRoom /\ TagsStart(k, input_data)
  \/ \E k \in TagsTaskIds, parsed \in ParsedTags : TagsResponse(k, parsed)
  \/ \E k \in TagsTaskIds : TagsException(k)

SpecOrchestrators == Init /\ [][OrchNext]_vars

(***************************************************************************)
(* Properties.                                                             *)
(***************************************************************************)
IsAdhocRequest(input_data) ==
  /\ input_data.channel_id = NoId
  /\ input_data.channel_name # None
  /\ input_data.channel_description # None

\* C1: create_content_package called with channel_name and
\* channel_description set and no channel_id returns, without raising, a
\* package that is PENDING, has a synthesized "ad-hoc-" channel id and exactly
\* one log entry, and is in the registry under its id.
C1_CreateAdhocReturnsPending ==
  (created.out # "none" /\ IsAdhocRequest(created.input)) =>
    /\ created.out = "returned"
    /\ created.pkg \in active_packages
    /\ packages[created.pkg].id = created.pkg
    /\ packages[created.pkg].status = PENDING
    /\ packages[created.pkg].channel_id.prefix = "ad-hoc-"
    /\ Len(packages[created.pkg].processing_logs) = 1

RunEnded(id) == packages[id].status \in {GENERATED, FAILED}

ImagesFailed(id) == [pkg |-> id, kind |-> "images_failed"] \in collab_calls

HasLog(id, msgs, arg) ==
  \E i \in 1..Len(packages[id].processing_logs) :
    /\ packages[id].processing_logs[i].msg \in msgs
    /\ packages[id].processing_logs[i].arg = arg

\* C2: when the image provider fails, the run still ends with the package
\* GENERATED, with generated_images = None and with a log entry that holds
\* the image-stage error text.
C2_ImageFailureLeavesNoImages ==
  \A id \in DOMAIN packages :
    (ImagesFailed(id) /\ RunEnded(id)) =>
      /\ packages[id].status = GENERATED
      /\ packages[id].generated_images = NoImages
      /\ HasLog(id, {"image_error", "image_skipped"}, ErrImages)

\* the ended runs of the tasks: [input, pkg, raised]
Ran == {e \in UNION {{tasks[t].ran[i] : i \in DOMAIN tasks[t].ran} : t \in TaskIds} :
          e.pkg # NoPkgId}

InFlight(id) ==
  \E t \in TaskIds :
    tasks[t].pkg = id /\ tasks[t].pc \in {"content", "images", "save"}

ContentStageRaised(id) == HasLog(id, {"content_error"}, ErrContent)

\* C3: an exception that escapes the content stage of a run sets the package
\* FAILED, logs the error message and is raised to the caller of the run (a
\* single run raises, a batch leaves the package out of its results); the
\* package stays in the registry, FAILED.
C3_ContentErrorFailsAndRaises ==
  /\ \A id \in DOMAIN packages :
       ContentStageRaised(id) =>
         /\ packages[id].status = FAILED
         /\ HasLog(id, {"fatal"}, ErrContent)
         /\ id \in active_packages
         /\ ~InFlight(id)
  /\ \A t \in TaskIds :
       \A i \in DOMAIN tasks[t].ran :
         LET e == tasks[t].ran[i] IN
         (e.pkg # NoPkgId /\ ContentStageRaised(e.pkg)) =>
           /\ e.raised
           /\ \A j \in DOMAIN tasks[t].results : tasks[t].results[j] # e.pkg
           /\ (tasks[t].kind = "run" => tasks[t].outcome = "raised")

C3_Witness ==
  \E t \in TaskIds :
    /\ tasks[t].kind = "run" /\ tasks[t].pc = "done"
    /\ tasks[t].outcome = "raised"
    /\ Len(tasks[t].ran) = 1
    /\ tasks[t].ran[1].pkg # NoPkgId
    /\ ContentStageRaised(tasks[t].ran[1].pkg)
    /\ packages[tasks[t].ran[1].pkg].status = FAILED
    /\ tasks[t].ran[1].pkg \in active_packages

StatusPaths ==
  {<<PENDING>>,
   <<PENDING, GENERATING_CONTENT>>,
   <<PENDING, GENERATING_CONTENT, GENERATED>>,
   <<PENDING, GENERATING_CONTENT, FAILED>>,
   <<PENDING, FAILED>>}

\* C4: the status of a package follows PENDING -> GENERATING_CONTENT ->
\* GENERATED, PENDING -> GENERATING_CONTENT -> FAILED or PENDING -> FAILED,
\* never moves backwards, and is never changed once it is GENERATED or FAILED.
C4_StatusPaths ==
  /\ [](\A id \in DOMAIN packages :
          /\ packages[id].status_history \in StatusPaths
          /\ packages[id].status =
               packages[id].status_history[Len(packages[id].status_history)])
  /\ [][\A id \in DOMAIN packages :
          /\ id \in DOMAIN packages'
          /\ Len(packages'[id].status_history) >= Len(packages[id].status_history)
          /\ SubSeq(packages'[id].status_history, 1,
                    Len(packages[id].status_history)) = packages[id].status_history
          /\ (packages[id].status \in {GENERATED, FAILED} =>
                packages'[id].status = packages[id].status)]_vars

C4_Witness ==
  /\ \E id \in DOMAIN packages :
       packages[id].status_history = <<PENDING, GENERATING_CONTENT, GENERATED>>
  /\ \E id \in DOMAIN packages :
       packages[id].status_history = <<PENDING, GENERATING_CONTENT, FAILED>>

ContentStageReturned(id) ==
  \E i \in 1..Len(packages[id].processing_logs) :
    packages[id].processing_logs[i].msg = "content_done"

\* the entries of the tasks' `ran` lists that are about package id
RanFor(id) == {e \in Ran : e.pkg = id}

\* C5: after a run whose content stage succeeded the package is GENERATED,
\* has a non-null generated_content with a title and at least 4 log entries,
\* whatever the image and persistence stages did.
C5_ContentSuccessEndsGenerated ==
  \A id \in DOMAIN packages :
    (ContentStageReturned(id) /\ ~InFlight(id)) =>
      /\ packages[id].status = GENERATED
      /\ packages[id].generated_content # NoContent
      /\ packages[id].generated_content.title \in Titles
      /\ Len(packages[id].processing_logs) >= 4
      /\ \A e \in RanFor(id) : ~e.raised

C5_Witness ==
  \E id \in DOMAIN packages :
    /\ ContentStageReturned(id) /\ ~InFlight(id)
    /\ packages[id].status = GENERATED
    /\ HasLog(id, {"image_skipped"}, ErrNoPrompts)
    /\ \E e \in RanFor(id) : ~e.raised

SinkFailed(id) == [pkg |-> id, kind |-> "sink_failed"] \in collab_calls
SaveCallRaised(id) == [pkg |-> id, kind |-> "save_raised"] \in collab_calls

SaveLogs(id) ==
  {i \in 1..Len(packages[id].processing_logs) :
     packages[id].processing_logs[i].msg \in {"save_ok", "save_failed", "save_error"}}

\* C6: whatever the save did (one sink failed, both failed, the call raised)
\* the package of a run whose content stage succeeded is GENERATED when the
\* run ends; the outcome of the save is one log entry and the status never
\* shows it.
C6_SaveFailureNeverFails ==
  \A id \in DOMAIN packages :
    (SinkFailed(id) \/ SaveCallRaised(id)) =>
      /\ ContentStageReturned(id)
      /\ packages[id].status = GENERATED
      /\ packages[id].status_history = <<PENDING, GENERATING_CONTENT, GENERATED>>
      /\ Cardinality(SaveLogs(id)) = 1
      /\ SaveCallRaised(id) <=> HasLog(id, {"save_error"}, ErrSave)
      /\ \A e \in RanFor(id) : ~e.raised

C6_Witness ==
  /\ \E id \in DOMAIN packages :
       /\ SaveCallRaised(id)
       /\ packages[id].status = GENERATED
  /\ \E id \in DOMAIN packages :
       /\ SinkFailed(id) /\ HasLog(id, {"save_failed"}, "")
       /\ packages[id].status = GENERATED

\* a request whose channel cannot be resolved: its channel id is not in the
\* registry and it does not carry both channel_name and channel_description
Unresolvable(input_data) ==
  /\ get_channel(input_data.channel_id) = NoChannel
  /\ ~(input_data.channel_name # None /\ input_data.channel_description # None)

StageLogs ==
  {"content_begin", "content_done", "content_error", "image_begin", "image_done",
   "image_error", "image_skipped", "save_begin", "save_ok", "save_failed",
   "save_error", "completed"}

CollabKinds == {"content", "images", "save"}

\* C7: a run of a request whose channel cannot be resolved raises at once: no
\* text-generation, image-generation or persistence call is made, no log
\* entry of the content, image or persistence stage is written, and the
\* request is run once only.
C7_UnresolvableFailsEarly ==
  \A t \in TaskIds :
    /\ Len(tasks[t].ran) <= Len(tasks[t].items)
    /\ \A i \in DOMAIN tasks[t].items :
         Unresolvable(tasks[t].items[i]) =>
           /\ ~(tasks[t].idx = i /\ tasks[t].pc \in CollabKinds)
           /\ i \in DOMAIN tasks[t].ran =>
                LET e == tasks[t].ran[i] IN
                /\ e.input = tasks[t].items[i]
                /\ e.raised
                /\ \A k \in CollabKinds : [pkg |-> e.pkg, kind |-> k] \notin collab_calls
                /\ e.pkg # NoPkgId =>
                     /\ packages[e.pkg].status_history = <<PENDING, FAILED>>
                     /\ \A j \in 1..Len(packages[e.pkg].processing_logs) :
                          packages[e.pkg].processing_logs[j].msg \notin StageLogs

C7_Witness ==
  \E t \in TaskIds :
    /\ tasks[t].pc = "done" /\ tasks[t].kind = "run"
    /\ Unresolvable(tasks[t].items[1])
    /\ tasks[t].items[1].channel_id = UnkId
    /\ Len(tasks[t].ran) = 1
    /\ tasks[t].ran[1].raised
    /\ tasks[t].ran[1].pkg # NoPkgId
    /\ packages[tasks[t].ran[1].pkg].status = FAILED

\* the packages of the runs of `ran` that did not raise, in order
RECURSIVE Returned(_)
Returned(ran) ==
  IF ran = <<>> THEN <<>>
  ELSE (IF Head(ran).raised THEN <<>> ELSE <<Head(ran).pkg>>) \o Returned(Tail(ran))

\* C8: run_batch_workflow runs every input once, in input order, one after
\* the other; an item that raises does not stop the later items and nothing
\* escapes run_batch_workflow; the list returned holds, in input order, the
\* packages of the runs that did not raise.
C8_BatchRunsAllInOrder ==
  \A t \in TaskIds :
    tasks[t].kind = "batch" =>
      /\ Len(tasks[t].ran) <= Len(tasks[t].items)
      /\ \A i \in DOMAIN tasks[t].ran : tasks[t].ran[i].input = tasks[t].items[i]
      /\ tasks[t].results = Returned(tasks[t].ran)
      /\ tasks[t].pc \in CollabKinds => tasks[t].idx = Len(tasks[t].ran) + 1
      /\ tasks[t].pc = "done" =>
           /\ Len(tasks[t].ran) = Len(tasks[t].items)
           /\ tasks[t].outcome = "returned"
      /\ tasks[t].outcome # "raised"

C8_Witness ==
  \E t \in TaskIds :
    /\ tasks[t].kind = "batch" /\ tasks[t].pc = "done"
    /\ Len(tasks[t].items) = 2
    /\ tasks[t].ran[1].raised /\ tasks[t].ran[1].pkg # NoPkgId
    /\ ~tasks[t].ran[2].raised
    /\ tasks[t].results = <<tasks[t].ran[2].pkg>>

Terminal == {GENERATED, PUBLISHED, FAILED}

\* C9: cleanup_completed_packages removes exactly the registered packages
\* that are GENERATED, PUBLISHED or FAILED and whose age since updated_at is
\* strictly greater than max_age: a terminal package whose age equals max_age
\* is kept, one a second older is removed, a package in another status is
\* never removed, and the surviving packages are left as they were.
C9_SweepRemovesExactlyOldTerminal ==
  [][swept' # swept =>
       LET max_age == swept'.max_age_hours * SecondsPerHour
           age(id) == now - packages[id].updated_at
       IN /\ active_packages' \subseteq active_packages
          /\ packages' = packages
          /\ \A id \in active_packages :
               /\ id \notin active_packages' <=>
                    (packages[id].status \in Terminal /\ age(id) > max_age)
               /\ age(id) = max_age => id \in active_packages'
               /\ (packages[id].status \in Terminal /\ age(id) = max_age + 1) =>
                    id \notin active_packages'
               /\ packages[id].status \notin Terminal => id \in active_packages'
    ]_vars

C9_Witness ==
  /\ swept.called /\ swept.at = now /\ swept.max_age_hours = 1
  /\ \E id \in active_packages :
       /\ packages[id].status \in Terminal
       /\ now - packages[id].updated_at = SecondsPerHour
  /\ \E id \in swept.before \ active_packages :
       /\ packages[id].status \in Terminal
       /\ now - packages[id].updated_at = SecondsPerHour + 1

\* an attempt that did not end the call: it raised, or its title was rejected
AttemptFailed(a) == a.raised \/ ~a.diverse
Rejected(a) == ~a.raised /\ ~a.diverse

\* the attempts of a call, but the last
Earlier(tk) == 1..(Len(tk.attempts) - 1)

\* C10 as stated: at most 3 attempts; the first attempt whose title passes
\* _is_title_diverse is recorded in the history and returned at once; no
\* title that failed the check is ever recorded or returned.
C10_DiverseRecordedRejectedNeverReturned ==
  \A k \in TitleTaskIds :
    LET tk == title_tasks[k] IN
    /\ Len(tk.attempts) <= max_attempts
    /\ tk.via = "diverse" =>
         /\ ~AttemptFailed(tk.attempts[Len(tk.attempts)])
         /\ tk.title = tk.attempts[Len(tk.attempts)].title
         /\ tk.recorded = <<tk.title>>
         /\ \A i \in Earlier(tk) : AttemptFailed(tk.attempts[i])
    /\ \A i \in DOMAIN tk.attempts :
         Rejected(tk.attempts[i]) =>
           /\ tk.attempts[i].title # tk.title
           /\ \A j \in DOMAIN tk.recorded : tk.recorded[j] # tk.attempts[i].title

\* C10, amended: at most 3 attempts; the first attempt whose title passes
\* _is_title_diverse ends the call: its title is returned, and recorded in the
\* history unless it is empty; a rejected title moves to the next attempt
\* while attempts remain and that attempt records and returns nothing; after
\* the third failed attempt the fallback title is recorded and returned
\* without a diversity check.
C10_AttemptsAndRecording ==
  \A k \in TitleTaskIds :
    LET tk == title_tasks[k] IN
    /\ Len(tk.attempts) <= max_attempts
    /\ tk.via = "diverse" =>
         /\ tk.pc = "done"
         /\ ~AttemptFailed(tk.attempts[Len(tk.attempts)])
         /\ tk.title = tk.attempts[Len(tk.attempts)].title
         /\ tk.recorded = IF tk.title = <<>> THEN <<>> ELSE <<tk.title>>
         /\ \A i \in Earlier(tk) : AttemptFailed(tk.attempts[i])
    /\ tk.via = "fallback" =>
         /\ tk.pc = "done"
         /\ Len(tk.attempts) = max_attempts
         /\ \A i \in DOMAIN tk.attempts : AttemptFailed(tk.attempts[i])
         /\ tk.title = fallback_title(tk.input_data)
         /\ tk.recorded = <<tk.title>>
    /\ tk.pc = "awaiting" =>
         /\ Len(tk.attempts) < max_attempts
         /\ tk.attempt = Len(tk.attempts)
         /\ \A i \in DOMAIN tk.attempts : AttemptFailed(tk.attempts[i])
         /\ tk.recorded = <<>>
         /\ tk.title = NoTitle
    /\ tk.pc = "done" => tk.via \in {"diverse", "fallback"}

C10_Witness ==
  \E k \in TitleTaskIds :
    LET tk == title_tasks[k] IN
    /\ tk.pc = "done" /\ tk.via = "fallback"
    /\ \E i \in DOMAIN tk.attempts :
         Rejected(tk.attempts[i]) /\ tk.attempts[i].title = tk.title
    /\ tk.recorded = <<tk.title>>
    /\ recent_title_starts # <<>>
    /\ recent_title_starts[Len(recent_title_starts)] = first_word(tk.title)

AllAttemptsFailed(tk) ==
  /\ Len(tk.attempts) = max_attempts
  /\ \A i \in DOMAIN tk.attempts : AttemptFailed(tk.attempts[i])

\* "{topic} | {channel_name}" of the request
TopicBarChannel(input_data) ==
  input_data.video_topic \o <<"|">> \o input_data.channel_name

\* C11: when all 3 title attempts failed (by exception or by a rejected
\* title) the call returns exactly "{topic} | {channel_name}" of its request,
\* whatever the history and the responses were, and the step that ends the
\* call appends the first word of that title to the title history.
C11_FallbackTitleExactAndRecorded ==
  /\ [](\A k \in TitleTaskIds :
          LET tk == title_tasks[k] IN
          AllAttemptsFailed(tk) =>
            /\ tk.pc = "done"
            /\ tk.title = TopicBarChannel(tk.input_data)
            /\ tk.thumbnail_text = "WATCH NOW"
            /\ tk.recorded = <<TopicBarChannel(tk.input_data)>>)
  /\ [][\A k \in TitleTaskIds :
          (~AllAttemptsFailed(title_tasks[k]) /\ AllAttemptsFailed(title_tasks'[k])) =>
            LET h == Append(recent_title_starts,
                            first_word(TopicBarChannel(title_tasks[k].input_data)))
            IN recent_title_starts' =
                 IF Len(h) > max_diversity_history THEN Tail(h) ELSE h]_vars

C11_Witness ==
  \E k \in TitleTaskIds :
    LET tk == title_tasks[k] IN
    /\ AllAttemptsFailed(tk) /\ tk.pc = "done"
    /\ \E i \in DOMAIN tk.attempts : tk.attempts[i].raised
    /\ \E i \in DOMAIN tk.attempts : Rejected(tk.attempts[i])
    /\ tk.title = <<"sunset", "timelapse", "|", "Calm", "Channel">>
    /\ Len(recent_title_starts) >= 3
    /\ recent_title_starts[Len(recent_title_starts)] = "sunset"

\* the text-generation requests a call has issued: one per attempt made,
\* and the one it is suspended at
Requests(tk) == Len(tk.attempts) + (IF tk.pc = "awaiting" THEN 1 ELSE 0)
Raisings(tk) == Cardinality({i \in 1..Len(tk.attempts) : tk.attempts[i].raised})

C13_OneSingleShotFallback ==
  \A k \in GenTaskIds : LET g == gen_tasks[k] IN
    /\ g.optimized_runs <= 1
    /\ g.single_shots <= 1
    /\ g.pc = "single_shot" => g.single_shots = 1
    /\ (g.pc = "done" /\ g.via = "single_shot") => g.single_shots = 1
    /\ g.pc = "raised" => g.single_shots = 1
    /\ (g.pc = "done" /\ g.via = "optimized") => g.single_shots = 0

\* the last n entries of a sequence
LastN(s, n) == SubSeq(s, Len(s) - Min(n, Len(s)) + 1, Len(s))

\* the first words of the logged titles that have one, in recording order
RecordedWords(log) ==
  SelectSeq([i \in 1..Len(log) |-> first_word(log[i])], LAMBDA w : w # "")

\* C14: after any sequence of record_title calls the title history holds at
\* most 20 entries, and they are exactly the most recently recorded first
\* words in recording order, the oldest evicted first; after 25 recordings
\* it holds exactly the last 20.
C14_TitleHistoryIsLast20 ==
  /\ Len(recent_title_starts) <= max_diversity_history
  /\ recent_title_starts = LastN(RecordedWords(title_log), max_diversity_history)
  /\ Len(RecordedWords(title_log)) = 25 =>
       /\ Len(recent_title_starts) = 20
       /\ \A i \in 1..20 : recent_title_starts[i] = RecordedWords(title_log)[i + 5]

\* 25 titles were recorded, the first four of them with a first word that
\* the history holds no more
C14_Witness ==
  /\ Len(RecordedWords(title_log)) = 25
  /\ \A i \in 1..4 : RecordedWords(title_log)[i] = "relaxing"
  /\ recent_title_starts = [i \in 1..20 |-> "calm"]

\* the titles put to the diversity check
CandidateTitles == ParsedTitles \cup RecordTitles

\* C15: is_title_diverse(title) is true exactly when the lowercase first
\* word of the title occurs fewer than max(1, 20/10) = 2 times in the
\* current title history: two or more occurrences among the retained
\* entries make the title not diverse, and with an empty history every
\* title is diverse.
C15_TitleDiverseIffFewerThanTwo ==
  \A title \in CandidateTitles :
    /\ _is_title_diverse(recent_title_starts, title)
         <=> Count(recent_title_starts, first_word(title)) < Max(1, 20 \div 10)
    /\ Count(recent_title_starts, first_word(title)) >= 2
         => ~_is_title_diverse(recent_title_starts, title)
    /\ recent_title_starts = <<>> => _is_title_diverse(recent_title_starts, title)

\* the history holds "relaxing" twice and "calm" once: a title that starts
\* with Relaxing or relaxing is not diverse, one that starts with Calm is
C15_Witness ==
  /\ Count(recent_title_starts, "relaxing") = 2
  /\ Count(recent_title_starts, "calm") = 1
  /\ ~_is_title_diverse(recent_title_starts, <<"relaxing", "rain">>)
  /\ ~_is_title_diverse(recent_title_starts, <<"Relaxing", "Piano">>)
  /\ _is_title_diverse(recent_title_starts, <<"Calm", "Night">>)

\* the tag lists put to the diversity check
CandidateTagLists ==
  {<<>>,
   <<<<" ">>>>,
   <<<<"m", "u", "s", "i", "c">>, <<"n", "e", "w", "t", "h", "i", "n", "g">>>>,
   <<<<" ", "P", "i", "a", "n", "o", " ">>>>,
   <<<<"r", "a", "i", "n", " ", "d", "r", "o", "p", "s">>, <<"n", "e", "w", "t", "h", "i", "n", "g">>>>,
   <<<<"r", "a", "i", "n", " ", "d", "r", "o", "p", "s">>, <<"R", "a", "i", "n", " ", "f", "a", "l", "l">>>>,
   <<<<"r", "a", "i", "n", " ", "1">>, <<"r", "a", "i", "n", " ", "2">>, <<"a", "3">>, <<"a", "4">>, <<"a", "5">>, <<"a", "6">>, <<"a", "7">>, <<"a", "8">>,
     <<"a", "9">>, <<"a", "0">>>>,
   <<<<"r", "a", "i", "n", " ", "1">>, <<"r", "a", "i", "n", " ", "2">>, <<"r", "a", "i", "n", " ", "3">>, <<"a", "4">>, <<"a", "5">>, <<"a", "6">>, <<"a", "7">>,
     <<"a", "8">>, <<"a", "9">>, <<"a", "0">>>>}

\* the candidate first words that occur at least twice in the aggregated
\* first-word history, counted with their multiplicity
OverusedCount(tags) ==
  Cardinality({i \in 1..Len(tag_patterns(tags)) :
     Count(Flatten(recent_tag_patterns), tag_patterns(tags)[i]) >= 2})

\* some candidate tag, trimmed and lowercased, is in the aggregated full-tag
\* history
RepeatsRecordedTag(tags) ==
  \E i \in 1..Len(tags) :
    /\ full_tag(tags[i]) # <<>>
    /\ InSeq(full_tag(tags[i]), Flatten(recent_full_tags))

\* C16: is_tags_diverse(tags) is true exactly when the number of candidate
\* first words that occur at least 2 times in the aggregated first-word
\* history is at most max(1, len(candidate first words) / 5) and no
\* candidate tag (trimmed, lowercased) occurs in the aggregated full-tag
\* history; a candidate that repeats a tag of a retained recorded set is
\* never diverse.
C16_TagsDiverseIff ==
  \A tags \in CandidateTagLists :
    /\ _is_tags_diverse(recent_tag_patterns, recent_full_tags, tags)
         <=> /\ OverusedCount(tags) <= Max(1, Len(tag_patterns(tags)) \div 5)
             /\ ~RepeatsRecordedTag(tags)
    /\ RepeatsRecordedTag(tags)
         => ~_is_tags_diverse(recent_tag_patterns, recent_full_tags, tags)

\* {music, piano} and, twice, {Rain Sounds} are recorded: [music, newthing]
\* repeats a tag, [rain drops, Rain fall] has two overused first words, and
\* [rain drops, newthing] has one and is diverse; of the two lists of ten
\* the one with two overused first words is diverse
C16_Witness ==
  /\ InSeq(<<<<"m", "u", "s", "i", "c">>, <<"p", "i", "a", "n", "o">>>>, recent_full_tags)
  /\ Count(Flatten(recent_tag_patterns), <<"r", "a", "i", "n">>) = 2
  /\ ~_is_tags_diverse(recent_tag_patterns, recent_full_tags,
                       <<<<"m", "u", "s", "i", "c">>, <<"n", "e", "w", "t", "h", "i", "n", "g">>>>)
  /\ ~_is_tags_diverse(recent_tag_patterns, recent_full_tags, <<<<" ", "P", "i", "a", "n", "o", " ">>>>)
  /\ ~_is_tags_diverse(recent_tag_patterns, recent_full_tags,
                       <<<<"r", "a", "i", "n", " ", "d", "r", "o", "p", "s">>, <<"R", "a", "i", "n", " ", "f", "a", "l", "l">>>>)
  /\ _is_tags_diverse(recent_tag_patterns, recent_full_tags,
                      <<<<"r", "a", "i", "n", " ", "d", "r", "o", "p", "s">>, <<"n", "e", "w", "t", "h", "i", "n", "g">>>>)
  /\ \E tags \in CandidateTagLists :
       /\ Len(tags) = 10 /\ OverusedCount(tags) = 2
       /\ _is_tags_diverse(recent_tag_patterns, recent_full_tags, tags)
  /\ \E tags \in CandidateTagLists :
       /\ Len(tags) = 10 /\ OverusedCount(tags) = 3
       /\ ~_is_tags_diverse(recent_tag_patterns, recent_full_tags, tags)

\* a tag list with at least one usable tag, and the logged lists that have one
Usable(tags) == \E i \in 1..Len(tags) : strip(tags[i]) # <<>>
UsableLog == SelectSeq(tags_log, Usable)

\* C17: each record_tags call with at least one usable tag appends one entry
\* to the first-word history and one entry to the full-tag history, and each
\* history holds at most 15 entries after any sequence of calls, the oldest
\* entry evicted first: the histories are the entries of the last 15 calls
\* that had a usable tag.
C17_TagHistoriesAreLast15 ==
  /\ Len(recent_tag_patterns) <= 15
  /\ Len(recent_full_tags) <= 15
  /\ Len(recent_tag_patterns) = Min(15, Len(UsableLog))
  /\ Len(recent_full_tags) = Min(15, Len(UsableLog))
  /\ recent_tag_patterns =
       LastN([i \in 1..Len(UsableLog) |-> tag_patterns(UsableLog[i])], 15)
  /\ recent_full_tags =
       LastN([i \in 1..Len(UsableLog) |-> full_tags(UsableLog[i])], 15)

\* 17 lists with a usable tag were recorded, the first two of them
\* {music, piano}, and both histories hold the 15 entries of the {Rain
\* Sounds} lists recorded after them
C17_Witness ==
  /\ Len(UsableLog) = 17
  /\ UsableLog[1] = <<<<"m", "u", "s", "i", "c">>, <<"p", "i", "a", "n", "o">>>>
  /\ UsableLog[2] = <<<<"m", "u", "s", "i", "c">>, <<"p", "i", "a", "n", "o">>>>
  /\ recent_tag_patterns = [i \in 1..15 |-> <<<<"r", "a", "i", "n">>>>]
  /\ recent_full_tags = [i \in 1..15 |-> <<<<"r", "a", "i", "n", " ", "s", "o", "u", "n", "d", "s">>>>]

\* the 3 attempts of a tags call are exhausted
AllTagAttemptsFailed(tk) ==
  /\ Len(tk.attempts) = max_attempts
  /\ \A i \in 1..Len(tk.attempts) : tk.attempts[i].raised \/ ~tk.attempts[i].diverse

\* the words of a string, lowercased, without . , ! ?
WordsOf(s) ==
  {Remove(split(lower_str(s))[i], {".", ",", "!", "?"}) :
     i \in 1..Len(split(lower_str(s)))}
PoolTags == {relaxation_tags[i] : i \in 1..Len(relaxation_tags)}
NoDuplicates(seq) == \A i, j \in 1..Len(seq) : seq[i] = seq[j] => i = j

\* C18, as the claim states it: the fallback list is built from the channel
\* name, the topic words and the fixed pool (and has no duplicates, at most
\* 12 entries, and is recorded).
C18_FallbackFromChannelTopicPool ==
  \A k \in TagsTaskIds : LET tk == tags_tasks[k] IN
    AllTagAttemptsFailed(tk) =>
      /\ tk.pc = "done"
      /\ \A i \in 1..Len(tk.tags) :
           tk.tags[i] \in {channel_tag(tk.input_data.channel_name)}
                            \cup WordsOf(tk.input_data.video_topic) \cup PoolTags
      /\ NoDuplicates(tk.tags)
      /\ Len(tk.tags) <= 12
      /\ tk.recorded = <<tk.tags>>

\* C18: when the 3 tag attempts are exhausted, the tags orchestrator returns
\* the fallback list built from the channel name, the topic words, the words
\* of the title and the fixed pool; the list has no duplicate entries and at
\* most 12 entries, it is returned without any diversity check (it is the
\* same list whatever the histories hold), and it is recorded in both tag
\* histories.
C18_FallbackTagsBuiltAndRecorded ==
  /\ [](\A k \in TagsTaskIds : LET tk == tags_tasks[k] IN
          AllTagAttemptsFailed(tk) =>
            /\ tk.pc = "done"
            /\ tk.tags # <<>>
            /\ \A i \in 1..Len(tk.tags) :
                 tk.tags[i] \in {channel_tag(tk.input_data.channel_name)}
                                  \cup WordsOf(tk.input_data.video_topic)
                                  \cup WordsOf(tk.input_data.title)
                                  \cup PoolTags
            /\ channel_tag(tk.input_data.channel_name) # <<>>
                 => tk.tags[1] = channel_tag(tk.input_data.channel_name)
            /\ \E i \in 1..Len(tk.tags) : tk.tags[i] \in PoolTags
            /\ NoDuplicates(tk.tags)
            /\ Len(tk.tags) <= 12
            /\ tk.recorded = <<tk.tags>>)
  /\ [][\A k \in TagsTaskIds :
          (~AllTagAttemptsFailed(tags_tasks[k]) /\ AllTagAttemptsFailed(tags_tasks'[k])) =>
            /\ recent_tag_patterns' # <<>>
            /\ recent_tag_patterns'[Len(recent_tag_patterns')] = tags_tasks'[k].tags
            /\ recent_full_tags'[Len(recent_full_tags')] = tags_tasks'[k].tags]_vars

\* a call whose 3 attempts failed, one of them by a list that was not
\* diverse, returned a fallback list with a word of the title in it, the
\* same list that an earlier call had returned and recorded
C18_Witness ==
  \E k \in TagsTaskIds : LET tk == tags_tasks[k] IN
    /\ AllTagAttemptsFailed(tk)
    /\ \E i \in 1..3 : ~tk.attempts[i].raised /\ tk.attempts[i].tags # <<>>
    /\ tk.pc = "done"
    /\ InSeq(<<"c", "a", "l", "m">>, tk.tags)
    /\ Len(tk.tags) = 12
    /\ Len(recent_full_tags) = 2
    /\ recent_full_tags[1] = tk.tags
    /\ recent_full_tags[2] = tk.tags

\* C19: tag cleaning is idempotent: for every tag list L,
\* _clean_and_validate_tags applied to _clean_and_validate_tags(L) returns
\* that list unchanged.
C19_CleaningIdempotent ==
  clean_twice # NotCleaned => clean_twice = clean_once

SheetMatch == first_match(upd_task.sheet0, "title", upd_task.record.video_title, 1)
TableMatch == first_match(upd_task.table0, "package_id", upd_task.record.package_id, 1)

\* the number of fields in which two table records differ
FieldsChanged(old, new) ==
  Cardinality({f \in {"package_id", "title", "payload"} : old[f] # new[f]})

OpChannel == registry_get(channel_registry, chan_op.key)

\* C22: get_channel_database gives None for a channel id that is not
\* registered, and for a registered channel without a spreadsheet of its own
\* it gives the process-wide spreadsheet id, which is the one a save for the
\* channel opens.
C22_RoutingDefaultsToSettings ==
  chan_op.op = "get_channel_database" =>
    /\ OpChannel = NoChannel => chan_op.output = NoChannel
    /\ (OpChannel # NoChannel /\ OpChannel.google_sheets_id = None
        /\ OpChannel.google_sheet_url = NoUrl) =>
         /\ chan_op.output.google_sheets_id = settings_google_sheets_id
         /\ _get_google_sheet(channel_registry, chan_op.key) = settings_google_sheets_id


(***************************************************************************)
(* C23.  The configuration file after a successful mutation.               *)
(***************************************************************************)
Mutations == {"add", "update", "remove"}
RegistryKeys == {channel_registry[i].key : i \in 1..Len(channel_registry)}
StoredIds ==
  IF config_file = NoFile THEN {}
  ELSE {config_file.channels[i].channel_id : i \in 1..Len(config_file.channels)}

\* C23: after an add, update or remove that returned true the file exists,
\* lists exactly the channel ids of the registry, and loading it gives the
\* registry again, routing fields included.
C23_StoreReproducesRegistry ==
  (chan_op.op \in Mutations /\ chan_op.result) =>
    /\ config_file # NoFile
    /\ StoredIds = RegistryKeys
    /\ _load_channels_config(config_file) = channel_registry


(***************************************************************************)
(* C24.  update_channel and remove_channel with an unknown channel id.     *)
(***************************************************************************)
\* C24: an update or a remove for a channel id that is not in the registry
\* returns false and leaves the registry and the configuration file as they
\* were.
C24_UnknownIdChangesNothing ==
  [][(/\ chan_calls' = chan_calls + 1
      /\ chan_op'.op \in {"update", "remove"}
      /\ registry_get(channel_registry, chan_op'.key) = NoChannel)
     => (/\ ~chan_op'.result
         /\ channel_registry' = channel_registry
         /\ config_file' = config_file)]_vars

C24_Witness ==
  /\ chan_op.op = "update"
  /\ ~chan_op.result
  /\ chan_op.key = "c1"
  /\ registry_get(channel_registry, "c1") = NoChannel
  /\ config_file # NoFile


(***************************************************************************)
(* C25.  enrich_input_data.                                                *)
(***************************************************************************)
NoContext == {None, ""}
NoStyle == {None, ""}

\* C25, as stated: for a registered channel the name and the description
\* come from the channel and the context is the synthesized one exactly when
\* the request had none, a context of the request being kept; for any other
\* channel id the input is returned as it was.
C25_ContextSynthesizedIffNoneSupplied ==
  chan_op.op = "enrich_input_data" =>
    IF OpChannel # NoChannel
    THEN /\ chan_op.output.channel_name = OpChannel.channel_name
         /\ chan_op.output.channel_description = OpChannel.channel_description
         /\ chan_op.output.channel_id = chan_op.input.channel_id
         /\ IF chan_op.input.additional_context \in NoContext
            THEN chan_op.output.additional_context = synthesized(OpChannel)
            ELSE chan_op.output.additional_context = chan_op.input.additional_context
    ELSE chan_op.output = chan_op.input

\* C25, amended: the context is synthesized exactly when the request had
\* none (absent or empty) and the channel has a content style; in every
\* other case the context of the request is returned as it was.
C25_ContextSynthesizedIffNoneAndStyle ==
  chan_op.op = "enrich_input_data" =>
    IF OpChannel # NoChannel
    THEN /\ chan_op.output.channel_name = OpChannel.channel_name
         /\ chan_op.output.channel_description = OpChannel.channel_description
         /\ chan_op.output.channel_id = chan_op.input.channel_id
         /\ IF chan_op.input.additional_context \in NoContext
               /\ OpChannel.content_style \notin NoStyle
            THEN chan_op.output.additional_context = synthesized(OpChannel)
            ELSE chan_op.output.additional_context = chan_op.input.additional_context
    ELSE chan_op.output = chan_op.input

\* a request without context for a registered channel without content style
C25_Witness ==
  /\ chan_op.op = "enrich_input_data"
  /\ OpChannel # NoChannel
  /\ OpChannel.content_style = None
  /\ chan_op.input.additional_context = None
  /\ chan_op.input.channel_name = "typed"
  /\ chan_op.output.channel_name = "A"
  /\ chan_op.output.additional_context = None


(***************************************************************************)
(* C26.  get_channel_statistics as a tally of the registry.                *)
(***************************************************************************)
CounterSum(s) ==
  s.pending + s.processing + s.generated + s.uploaded + s.published + s.failed

\* C26: in every reachable state, runs in flight included, the statistics
\* have an entry for exactly the channel ids of the registered packages, the
\* total of a channel is the number of its registered packages, each status
\* counter is the number of them in that status, and the counters of a
\* channel add up to its total.
C26_StatisticsTallyRegistry ==
  LET stats == get_channel_statistics
  IN /\ DOMAIN stats = {packages[id].channel_id : id \in active_packages}
     /\ \A c \in DOMAIN stats :
          /\ stats[c].total = Cardinality(PackagesOf(c))
          /\ stats[c].pending =
               Cardinality({id \in PackagesOf(c) : packages[id].status = PENDING})
          /\ stats[c].generated =
               Cardinality({id \in PackagesOf(c) : packages[id].status = GENERATED})
          /\ stats[c].failed =
               Cardinality({id \in PackagesOf(c) : packages[id].status = FAILED})
          /\ CounterSum(stats[c]) = stats[c].total


(***************************************************************************)
(* C27.  The diversity histories under concurrent generations.             *)
(***************************************************************************)
\* the history after one more entry: the oldest one leaves when the cap is
\* exceeded
Pushed(history, entry, cap) ==
  IF Len(history) = cap THEN Tail(history) \o <<entry>> ELSE Append(history, entry)

TitleCallAdded ==
  /\ Len(title_log') = Len(title_log) + 1
  /\ first_word(title_log'[Len(title_log')]) # ""
TagsCallAdded ==
  /\ Len(tags_log') = Len(tags_log) + 1
  /\ Usable(tags_log'[Len(tags_log')])

C28_VariationsAllAwaited ==
  /\ [](/\ var_call.pc = "gathering" =>
             \A k \in VariationIds : (var_tasks[k].pc # "unused") = (k <= var_call.n)
        /\ var_call.pc = "returned" =>
             /\ \A k \in 1..var_call.n : var_tasks[k].pc \in {"done", "raised"}
             /\ \A i \in 1..Len(var_call.result) :
                  /\ var_call.result[i].variation \in 1..var_call.n
                  /\ var_tasks[var_call.result[i].variation].pc = "done"
                  /\ var_call.result[i] = var_tasks[var_call.result[i].variation].content
             /\ \A i, j \in 1..Len(var_call.result) :
                  i < j => var_call.result[i].variation < var_call.result[j].variation
             /\ \A k \in 1..var_call.n :
                  var_tasks[k].pc = "done" =>
                    \E i \in 1..Len(var_call.result) : var_call.result[i].variation = k)
  /\ [][\A k \in VariationIds :
          (var_tasks[k].pc # "raised" /\ var_tasks'[k].pc = "raised") =>
            /\ var_call' = var_call
            /\ \A j \in VariationIds \ {k} : var_tasks'[j] = var_tasks[j]]_vars

\* the first of two variations raised and the second one, which recorded
\* its title and tags, is the result
C28_Witness ==
  /\ var_call.pc = "returned"
  /\ var_call.n = 2
  /\ var_tasks[1].pc = "raised"
  /\ var_tasks[2].pc = "done"
  /\ var_tasks[2].content.via = "optimized"
  /\ var_call.result = <<var_tasks[2].content>>


(***************************************************************************)
(* C29.  The log of a package.                                             *)
(***************************************************************************)
IsPrefix(s, u) == Len(s) <= Len(u) /\ SubSeq(u, 1, Len(s)) = s

\* C29: in every step the log of every package is extended at its end only:
\* the log before the step is a prefix of the log after it; and updated_at
\* of a package never decreases.
C29_LogAppendOnly ==
  [][\A id \in DOMAIN packages :
       id \in DOMAIN packages' =>
         /\ IsPrefix(packages[id].processing_logs, packages'[id].processing_logs)
         /\ packages'[id].updated_at >= packages[id].updated_at]_vars

\* a package whose log grew while the clock advanced
C29_Witness ==
  \E id \in DOMAIN packages :
    /\ Len(packages[id].processing_logs) >= 4
    /\ packages[id].updated_at > packages[id].created_at
    /\ packages[id].status = GENERATED


(***************************************************************************)
(* C30.  The status polls of an image generation call.                     *)
(***************************************************************************)
TerminalStatuses == {"completed", "succeeded", "failed"}

\* C30: a call makes at most 120 status polls; it goes on polling only
\* while no answer had the status completed (succeeded for replicate) or
\* failed, so such an answer is the last poll of the call; and the 120th
\* poll, when its answer is no such status either, ends the call with the
\* timeout failure.
C30_PollLoopBounded ==
  /\ poll_task.polls <= 120
  /\ poll_task.pc = "polling" =>
       /\ poll_task.polls < 120
       /\ poll_task.last_status \notin TerminalStatuses
  /\ (poll_task.pc = "ended" /\ poll_task.last_status \in TerminalStatuses) =>
       poll_task.outcome \in {"image", "no_image", "failed"}
  /\ (/\ poll_task.pc = "ended"
      /\ poll_task.polls = 120
      /\ poll_task.last_status \in {"starting", "pending", "processing", "none_code_200"}) =>
       poll_task.outcome = "timeout"
  /\ poll_task.outcome = "timeout" => (poll_task.pc = "ended" /\ poll_task.polls = 120)

\* the 120th poll of a piapi task was answered with pending
C30_Witness ==
  /\ poll_task.provider = "piapi"
  /\ poll_task.polls = 120
  /\ poll_task.last_status = "pending"
  /\ poll_task.pc = "ended"
  /\ poll_task.outcome = "timeout"


(***************************************************************************)
(* Tags parsing.                                                           *)
(***************************************************************************)
\* What each method finds in the response when taken alone: a list of tags,
\* empty when the method finds nothing or its input has another shape.
Method1Yield(tags_response) ==
  LET tags_data == json_loads(tags_response)
      tagged == {i \in 1..Len(tags_data.keys) : tags_data.keys[i] = "tags"}
  IN  CASE tags_data.type = "list" -> tags_data.items
        [] tags_data.type = "dict" /\ tagged # {} ->
             IF tags_data.vals[CHOOSE i \in tagged : TRUE].type = "list"
             THEN tags_data.vals[CHOOSE i \in tagged : TRUE].items ELSE <<>>
        [] tags_data.type = "dict" /\ tagged = {} -> first_list_value(tags_data).items
        [] OTHER -> <<>>
Method2Yield(tags_response) ==
  IF tags_object_search(tags_response).type = "dict"
  THEN tags_object_search(tags_response).vals[1].items ELSE <<>>
Method3Yield(tags_response) ==
  IF array_search(tags_response).type = "list" THEN array_search(tags_response).items ELSE <<>>
FirstNonEmpty(tags_response) ==
  CASE Method1Yield(tags_response) # <<>> -> Method1Yield(tags_response)
    [] Method2Yield(tags_response) # <<>> -> Method2Yield(tags_response)
    [] Method3Yield(tags_response) # <<>> -> Method3Yield(tags_response)
    [] OTHER -> split_lines(tags_response)

\* C31: every call of the tags parser returns, never raises, and what it
\* returns is the list of the first of the four methods, in priority order,
\* that yields a non-empty list (the empty list when none does).
C31_FirstNonEmptyMethodWins ==
  \A i \in 1..Len(parse_log) :
    /\ parse_log[i].result.raised = ""
    /\ parse_log[i].result.value = JList(FirstNonEmpty(parse_log[i].response))


(***************************************************************************)
(* Sink handles.                                                           *)
(***************************************************************************)
\* C32: for each channel id at most one Airtable client is ever constructed;
\* once a save of the channel has a client, every later save of that channel
\* uses that same client and constructs none.
C32_OneClientPerChannel ==
  \A i, j \in 1..Len(sink_log) :
    (i < j /\ sink_log[i].channel_id = sink_log[j].channel_id) =>
      /\ ~(sink_log[i].created /\ sink_log[j].created)
      /\ sink_log[i].client # NoClient =>
           (sink_log[j].client = sink_log[i].client /\ ~sink_log[j].created)

C32_Witness ==
  \E i, j \in 1..Len(sink_log) :
    /\ i < j /\ sink_log[i].channel_id = sink_log[j].channel_id
    /\ sink_log[i].created /\ sink_log[j].client = sink_log[i].client
    /\ clients_created = 1

\* C39: every save that has an Airtable client writes to the base that the
\* channel's config names at the time of the save, also when the config was
\* updated after an earlier save of the channel.
C39_SaveFollowsCurrentConfig ==
  \A i \in 1..Len(sink_log) :
    sink_log[i].client # NoClient =>
      /\ sink_log[i].config # NoChannel
      /\ sink_log[i].client.base_id = sink_log[i].config.airtable_base_id


(***************************************************************************)
(* Progress of a run.                                                      *)
(***************************************************************************)
\* the package of a run that is awaiting a collaborator
InRun(pid) ==
  \E t \in TaskIds : tasks[t].pkg = pid /\ tasks[t].pc \in {"content", "images", "save"}

\* C33: every package that a run has registered eventually reaches GENERATED
\* or FAILED, provided each collaborator call eventually returns or raises.
C33_RunPackageReachesTerminal ==
  \A pid \in 1..(MaxPkgs + 1) :
    InRun(pid) ~> (pid \in DOMAIN packages /\ packages[pid].status \in {GENERATED, FAILED})

C33_Witness ==
  \E t \in TaskIds :
    /\ tasks[t].pc = "content"
    /\ packages[tasks[t].pkg].status = GENERATING_CONTENT


(***************************************************************************)
(* Terminal statuses and content.                                          *)
(***************************************************************************)
\* C34: a FAILED package has neither generated content nor generated images,
\* and a GENERATED package has generated content.
C34_NoPartialContentAtTerminal ==
  \A p \in DOMAIN packages :
    /\ packages[p].status = FAILED =>
         (packages[p].generated_content = NoContent /\ packages[p].generated_images = NoImages)
    /\ packages[p].status = GENERATED => packages[p].generated_content # NoContent

C34_Witness ==
  /\ \E p \in DOMAIN packages :
       /\ packages[p].status = FAILED
       /\ \E i \in 1..Len(packages[p].processing_logs) :
            packages[p].processing_logs[i] = Log("content_error", ErrContent)
  /\ \E p \in DOMAIN packages :
       packages[p].status = GENERATED /\ packages[p].generated_images = NoImages


(***************************************************************************)
(* The persisted record.                                                   *)
(***************************************************************************)
\* the save awaited by task t returns with a sink having written the record
SaveWrote(t) ==
  /\ tasks[t].pc = "save"
  /\ tasks'[t] # tasks[t]
  /\ Len(packages'[tasks[t].pkg].processing_logs) > Len(packages[tasks[t].pkg].processing_logs)
  /\ packages'[tasks[t].pkg].processing_logs[Len(packages[tasks[t].pkg].processing_logs) + 1]
       = Log("save_ok", "")

\* C35: the status field of the record written by the persistence stage
\* equals the status the package holds when its run returns.
C35_PersistedStatusIsFinalStatus ==
  [][\A t \in TaskIds :
       SaveWrote(t) =>
         _package_to_record(packages[tasks[t].pkg]).status = packages'[tasks[t].pkg].status]_vars


(***************************************************************************)
(* Concurrent title generations.                                           *)
(***************************************************************************)
\* task k returns in this step a title it found diverse, and records it
RecordsDiverse(k) ==
  /\ title_tasks[k].pc = "awaiting"
  /\ title_tasks'[k].pc = "done"
  /\ title_tasks'[k].via = "diverse"
  /\ first_word(title_tasks'[k].title) # ""

\* C36: between the diversity check and the recording of an accepted title no
\* other generation runs: when a title is recorded through the diverse path
\* its first word occurs fewer than 2 times in the history, and at most 2
\* times right after the recording.
C36_DiverseCheckAndRecordAtomic ==
  [][\A k \in TitleTaskIds :
       RecordsDiverse(k) =>
         /\ Count(recent_title_starts, first_word(title_tasks'[k].title)) < 2
         /\ Count(recent_title_starts', first_word(title_tasks'[k].title)) <= 2
         /\ recent_title_starts' = _track_title_diversity(recent_title_starts, title_tasks'[k].title)]_vars

\* two generations are in flight, one returns a title whose first word is
\* then twice in the history while the other still awaits its response
C36_Witness ==
  \E k, j \in TitleTaskIds :
    /\ k # j
    /\ title_tasks[k].pc = "done" /\ title_tasks[k].via = "diverse"
    /\ first_word(title_tasks[k].title) # ""
    /\ Count(recent_title_starts, first_word(title_tasks[k].title)) = 2
    /\ title_tasks[j].pc = "awaiting"


(***************************************************************************)
(* The tags orchestrator's result.                                         *)
(***************************************************************************)
\* C37: a list the tags orchestrator returns that is not the fallback list
\* is non-empty, passed _is_tags_diverse against the history, and was
\* recorded in the tag history.
C37_ReturnedTagsNonEmptyDiverseRecorded ==
  \A k \in TagsTaskIds :
    (tags_tasks[k].pc = "done" /\ tags_tasks[k].via = "diverse") =>
      /\ tags_tasks[k].tags # <<>>
      /\ tags_tasks[k].attempts[Len(tags_tasks[k].attempts)].diverse
      /\ tags_tasks[k].recorded = <<tags_tasks[k].tags>>


(***************************************************************************)
(* The two tag histories.                                                  *)
(***************************************************************************)
\* the recorded lists that have an entry to add, oldest first
AddingCalls ==
  SelectSeq(tags_log, LAMBDA tags : tag_patterns(tags) # <<>> \/ full_tags(tags) # <<>>)

\* C40: the first-word tag history and the full-tag history have the same
\* length, and their i-th entries were added by the same recording call.
C40_TagHistoriesAligned ==
  /\ Len(recent_tag_patterns) = Len(recent_full_tags)
  /\ Len(recent_tag_patterns) <= Len(AddingCalls)
  /\ \A i \in 1..Len(recent_tag_patterns) :
       LET call == AddingCalls[Len(AddingCalls) - Len(recent_tag_patterns) + i]
       IN  /\ recent_tag_patterns[i] = tag_patterns(call)
           /\ i <= Len(recent_full_tags) /\ recent_full_tags[i] = full_tags(call)

\* entries were evicted, and a call without any entry lies among the calls
C40_Witness ==
  /\ Len(AddingCalls) > max_tag_diversity_history
  /\ Len(tags_log) > Len(AddingCalls)
  /\ Len(recent_full_tags) = max_tag_diversity_history


(***************************************************************************)
(* Runs and sweeps.                                                        *)
(***************************************************************************)
\* run t has registered its package and has not returned or raised yet
RunInFlight(t) == tasks[t].pc \in {"content", "images", "save"}

====
